---- MODULE Spec2Model ----
(***************************************************************************)
(* VTAuder: the chatbox message queue and rate limiter of VTAuderApp       *)
(* (main.py).  Producers call add_message_to_queue; the queue is drained   *)
(* by _process_message_queue, which is called by add_message_to_queue and  *)
(* by Tk timers (root.after); _send_message_direct hands one message to    *)
(* the OSC client.  The functions are modelled twice: as whole handlers    *)
(* run by the event loop (Spec, ProducerSpec), and statement by statement  *)
(* as run by the event loop and the transcription thread (ThreadSpec).     *)
(* The window poller (send_and_repeat_song_info), the music and DVD        *)
(* animations and the speech-to-text handler are whole handlers run by the *)
(* event loop from its pending root.after callbacks (AnimSpec,             *)
(* PollerSpec, SttSpec); RaceSpec takes add_message_to_queue apart for two *)
(* threads.  The two collaborators that push texts, the gesture recognizer *)
(* (steamvr_gesture.py) and the speech-to-text system (stt.py), have their *)
(* own specifications, GestureSpec and ListenSpec.                         *)
(*                                                                         *)
(* Time is counted in ticks of 0.5 s: time.time() is the variable now,     *)
(* 1.5 s is 3 ticks, 30 s is 60 ticks, root.after(1500, f) makes f due     *)
(* 3 ticks after the call.                                                 *)
(*                                                                         *)
(* Texts are sequences of characters; a character is a one-letter string,  *)
(* or one of the names "LF", "CR", "TAB", "NUL" for a control character.   *)
(***************************************************************************)
EXTENDS Integers, Sequences, FiniteSets, Bags, TLC

VARIABLES
    _message_queue,         \* list of queued messages, oldest first
    _queue_processing,      \* the "processing" flag
    _last_chatbox_sent,     \* time of the last successful send (0 at start)
    _chatbox_timeout,       \* spam timeout flag
    _chatbox_timeout_until, \* end of the spam timeout
    timers,                 \* bag of due times of pending root.after(.., _process_message_queue)
    chat_log,               \* lines appended by append_chat_log
    now,                    \* time.time()
    osc_sent,               \* history: texts handed to osc_client.send_chat_message, in order
    evicted,                \* history: ids of messages removed by the queue-full branch
    ncalls,                 \* history: number of add_message_to_queue calls so far
    last_call,              \* history: the last add_message_to_queue call and its result
    v_text,                 \* the text validate_message is applied to
    v_result,               \* what validate_message returned for v_text
    pc,                     \* per thread: the line of main.py it is to execute next
    frame,                  \* per thread: the local variables of its call
    started,                \* self.started
    vrchat_enabled_var,     \* the value of the "VRChat OSC" checkbox variable
    selected_window,        \* the window picked as song source, or NoWindow
    windows,                \* what get_window_processes() reports: the title of each process
    last_sent_song_info,    \* title of the last pair the poller handled, or None
    last_sent_artist,       \* artist of the last pair the poller handled, or None
    _keep_sending_song,     \* the poller is to schedule its next run
    _music_anim_running,    \* running flag of the now-playing animation
    _music_anim_index,      \* its frame index
    _music_anim_title,      \* the title it shows
    _music_anim_artist,     \* the artist it shows
    _music_anim_after_id,   \* the id root.after returned for its last scheduled tick, or None
    _dvd_anim_running,      \* running flag of the paused animation
    _dvd_anim_after_id,     \* the id root.after returned for its last scheduled tick, or None
    _stt_chat_buffer,       \* the transcript buffer of on_stt_text
    after_calls,            \* Tk: the pending root.after callbacks of poller and animations
    after_count,            \* Tk: the number of ids root.after has handed out
    ran,                    \* history: the handler the event loop ran last
    events,                 \* history: how often each outside event has happened
    running,                \* SteamVRGestureRecognizer.running
    thread,                 \* where the thread of its _poll_loop is
    last_positions,         \* its last_positions: the last position of each controller
    gesture_detected,       \* history: the phrases of the gestures it has detected (line 72)
    gesture_calls,          \* history: the phrases gesture_callback was called with
    is_listening,           \* RealTimeSTT.is_listening
    stt_threads,            \* the threads start_listening has started, and where each is
    audio_queue,            \* the number of audio segments in RealTimeSTT.audio_queue
    delivered,              \* history: the threads that called transcription_callback, in order
    listen_result           \* history: whether start_listening was called, and what the last call returned

vars == <<_message_queue, _queue_processing, _last_chatbox_sent, _chatbox_timeout,
          _chatbox_timeout_until, timers, chat_log, now, osc_sent, evicted,
          ncalls, last_call, v_text, v_result, pc, frame,
          started, vrchat_enabled_var, selected_window, windows,
          last_sent_song_info, last_sent_artist, _keep_sending_song,
          _music_anim_running, _music_anim_index, _music_anim_title,
          _music_anim_artist, _music_anim_after_id, _dvd_anim_running,
          _dvd_anim_after_id, _stt_chat_buffer, after_calls, after_count,
          ran, events, running, thread, last_positions, gesture_detected,
          gesture_calls, is_listening, stt_threads, audio_queue, delivered,
          listen_result>>

\* the state of the song poller
poller_vars == <<started, vrchat_enabled_var, selected_window, windows,
                 last_sent_song_info, last_sent_artist, _keep_sending_song>>

\* the state of the two animations
anim_vars == <<_music_anim_running, _music_anim_index, _music_anim_title,
               _music_anim_artist, _music_anim_after_id, _dvd_anim_running,
               _dvd_anim_after_id>>

\* the state of the gesture recognizer
gesture_vars == <<running, thread, last_positions, gesture_detected, gesture_calls>>

\* the state of the speech-to-text collaborator
stt_vars == <<is_listening, stt_threads, audio_queue, delivered, listen_result>>

\* the state of poller, animations and transcript handler together, and
\* that of the two collaborators
ui_vars == <<poller_vars, anim_vars, _stt_chat_buffer, after_calls, after_count,
             ran, events, gesture_vars, stt_vars>>

----------------------------------------------------------------------------
(* Program constants *)

_max_queue_size == 10

\* 1.5 s, in ticks of 0.5 s
_min_interval == 3

_max_message_length == 144

\* the 30 s of "time.time() + 30", in ticks of 0.5 s
SpamPause == 60

(* Bounds of the model *)

\* the clock stops after this many ticks past the start
MaxTime == 64

\* at most this many messages are accepted by add_message_to_queue
MaxAccepted == 12

\* at most this many calls of add_message_to_queue are rejected
MaxRejected == 2

\* a call of osc_client.send_chat_message takes 0..MaxSendTicks ticks
MaxSendTicks == 1

\* validate_message is tried on texts of up to MaxShort characters and of
\* _max_message_length - MaxOver .. _max_message_length + MaxOver characters,
\* plus a few characters before and after
MaxShort == 2

MaxOver == 3

\* time.time() at start-up counts from 1970, so it is at least _min_interval
\* past the initial _last_chatbox_sent = 0
StartTime == _min_interval

----------------------------------------------------------------------------
(* Characters and strings *)

SP == " "
LF == "LF"
CR == "CR"
TAB == "TAB"
NUL == "NUL"

\* the characters str.split() and str.strip() treat as whitespace
Whitespace == {SP, LF, CR, TAB}

Ellipsis == <<".", ".", ".">>

UpperCase == <<"A","B","C","D","E","F","G","H","I","J","K","L","M",
               "N","O","P","Q","R","S","T","U","V","W","X","Y","Z">>
LowerCase == <<"a","b","c","d","e","f","g","h","i","j","k","l","m",
               "n","o","p","q","r","s","t","u","v","w","x","y","z">>

\* str.lower() on one character
LowerChar(c) ==
    IF \E i \in 1..26 : UpperCase[i] = c
    THEN LowerCase[CHOOSE i \in 1..26 : UpperCase[i] = c]
    ELSE c

\* str.lower()
Lower(s) == [i \in 1..Len(s) |-> LowerChar(s[i])]

\* needle in hay
Contains(hay, needle) ==
    \E i \in 0..(Len(hay) - Len(needle)) :
        \A j \in 1..Len(needle) : hay[i + j] = needle[j]

\* text.replace(c, '')
Remove(s, c) == SelectSeq(s, LAMBDA x : x # c)

\* the positions of the characters of s that are not whitespace
Inked(s) == {i \in 1..Len(s) : s[i] \notin Whitespace}

First(S) == CHOOSE i \in S : \A j \in S : i <= j
Last(S) == CHOOSE i \in S : \A j \in S : i >= j

\* text.strip(): the text from its first to its last non-whitespace character
Strip(s) == IF Inked(s) = {} THEN <<>> ELSE SubSeq(s, First(Inked(s)), Last(Inked(s)))

\* ' '.join(text.split()): the words of the text (maximal runs of
\* non-whitespace characters), joined by single spaces.  Every character of
\* a word is kept; the first whitespace character after a word becomes the
\* joining space when another word follows; all other whitespace is dropped.
Dropped == "DROPPED"

JoinSplit(s) ==
    IF Inked(s) = {} THEN <<>>
    ELSE LET last == Last(Inked(s))
             marked == [i \in 1..Len(s) |->
                          IF s[i] \notin Whitespace THEN s[i]
                          ELSE IF i > 1 /\ i < last /\ s[i - 1] \notin Whitespace THEN SP
                          ELSE Dropped]
         IN SelectSeq(marked, LAMBDA c : c # Dropped)

EmptyMessage == <<"E","m","p","t","y"," ","m","e","s","s","a","g","e">>

Max(a, b) == IF a >= b THEN a ELSE b

\* the first n characters of cycle repeated over and over
Repeat(cycle, n) == [i \in 1..n |-> cycle[((i - 1) % Len(cycle)) + 1]]

----------------------------------------------------------------------------
(* validate_message *)

\* variant: the test for a blank text forgets text.strip()
validate_message_NoStrip(text) ==
    IF text = <<>>
    THEN [ok |-> FALSE, text |-> EmptyMessage]
    ELSE LET joined == JoinSplit(text)
             cut == IF Len(joined) > _max_message_length
                    THEN SubSeq(joined, 1, _max_message_length - 3) \o Ellipsis
                    ELSE joined
         IN [ok |-> TRUE, text |-> Remove(Remove(cut, NUL), CR)]

\* variant: the cut does not reserve room for the ellipsis
validate_message_NoReserve(text) ==
    IF text = <<>> \/ Strip(text) = <<>>
    THEN [ok |-> FALSE, text |-> EmptyMessage]
    ELSE LET joined == JoinSplit(text)
             cut == IF Len(joined) > _max_message_length
                    THEN SubSeq(joined, 1, _max_message_length) \o Ellipsis
                    ELSE joined
         IN [ok |-> TRUE, text |-> Remove(Remove(cut, NUL), CR)]

validate_message(text) ==
    IF text = <<>> \/ Strip(text) = <<>>
    THEN [ok |-> FALSE, text |-> EmptyMessage]
    ELSE LET joined == JoinSplit(text)
             cut == IF Len(joined) > _max_message_length
                    THEN SubSeq(joined, 1, _max_message_length - 3) \o Ellipsis
                    ELSE joined
         IN [ok |-> TRUE, text |-> Remove(Remove(cut, NUL), CR)]

----------------------------------------------------------------------------
(* The program state as one record, so that a handler and the calls it     *)
(* makes compose into one step.                                            *)

State ==
    [queue |-> _message_queue, processing |-> _queue_processing,
     last_sent |-> _last_chatbox_sent, timeout |-> _chatbox_timeout,
     timeout_until |-> _chatbox_timeout_until, timers |-> timers,
     chat_log |-> chat_log, now |-> now, osc_sent |-> osc_sent,
     evicted |-> evicted]

Install(s) ==
    /\ _message_queue' = s.queue
    /\ _queue_processing' = s.processing
    /\ _last_chatbox_sent' = s.last_sent
    /\ _chatbox_timeout' = s.timeout
    /\ _chatbox_timeout_until' = s.timeout_until
    /\ timers' = s.timers
    /\ chat_log' = s.chat_log
    /\ now' = s.now
    /\ osc_sent' = s.osc_sent
    /\ evicted' = s.evicted

\* root.after(delay, self._process_message_queue) called at time t
After(bag, t, delay) == bag (+) SetToBag({t + delay})

\* str.title() on the message types the producers use
Title(type) ==
    CASE type = "general" -> "General"
      [] type = "manual" -> "Manual"
      [] type = "stt" -> "Stt"
      [] type = "gesture" -> "Gesture"
      [] type = "music" -> "Music"
      [] type = "dvd" -> "Dvd"

\* the line append_chat_log is given: f"{type.title()}: {text}"
LogLine(msg) == [type |-> Title(msg.type), text |-> msg.text]

(* What the try block of _send_message_direct can do: return, or raise an  *)
(* exception e with str(e) = diag.  VRChatOSCClient.send_chat_message      *)
(* (vrchat.py) catches the exceptions of its own UDP send, so a raise      *)
(* comes from whatever object stands behind vrchat_integration.osc_client; *)
(* the handler's except branch is modelled for any diagnostic.             *)
Returned == [raised |-> FALSE, diag |-> <<>>]
Raised(diag) == [raised |-> TRUE, diag |-> diag]

TimedOutForSpam ==
    <<"T","i","m","e","d"," ","o","u","t"," ","f","o","r"," ","s","p","a","m">>

\* the test of line 200
IsSpam(diag) == Contains(diag, TimedOutForSpam) \/ Contains(Lower(diag), <<"s","p","a","m">>)

----------------------------------------------------------------------------
(* _send_message_direct(text): msg is the popped message, outcome what the *)
(* try block does, d the ticks the call takes.  Gives the new state and    *)
(* the value returned.                                                     *)

\* variant: the test for "spam" forgets str(e).lower()
_send_message_direct_CaseSensitive(s, msg, outcome, d) ==
    LET handed == [s EXCEPT !.osc_sent = Append(@, [id |-> msg.id, text |-> msg.text,
                                                     at |-> s.now, done |-> s.now + d,
                                                     outcome |-> outcome]),
                            !.now = s.now + d]
    IN IF ~outcome.raised
       THEN [s |-> [handed EXCEPT !.last_sent = handed.now], success |-> TRUE]
       ELSE IF Contains(outcome.diag, <<"s","p","a","m">>)
       THEN [s |-> [handed EXCEPT !.timeout = TRUE,
                                  !.timeout_until = handed.now + SpamPause],
             success |-> FALSE]
       ELSE [s |-> handed, success |-> FALSE]

_send_message_direct(s, msg, outcome, d) ==
    LET handed == [s EXCEPT !.osc_sent = Append(@, [id |-> msg.id, text |-> msg.text,
                                                     at |-> s.now, done |-> s.now + d,
                                                     outcome |-> outcome]),
                            !.now = s.now + d]
    IN IF ~outcome.raised
       THEN [s |-> [handed EXCEPT !.last_sent = handed.now], success |-> TRUE]
       ELSE IF IsSpam(outcome.diag)
       THEN [s |-> [handed EXCEPT !.timeout = TRUE,
                                  !.timeout_until = handed.now + SpamPause],
             success |-> FALSE]
       ELSE [s |-> handed, success |-> FALSE]

----------------------------------------------------------------------------
(* _process_message_queue *)

\* variant: the test of the processing flag and of the empty queue at the
\* top of the function is missing
_process_message_queue_NoGuard(s, outcome, d) ==
    IF (s.timeout /\ s.now < s.timeout_until)
       \/ (s.now - s.last_sent < _min_interval)
    THEN LET time_until_ready ==
                 Max(IF s.timeout THEN s.timeout_until - s.now ELSE 0,
                     _min_interval - (s.now - s.last_sent))
         IN [s EXCEPT !.timers = After(@, s.now, time_until_ready),
                      !.processing = FALSE]
    ELSE IF s.queue # <<>>
    THEN LET message_data == Head(s.queue)
             r == _send_message_direct([s EXCEPT !.processing = TRUE,
                                                 !.queue = Tail(@)],
                                       message_data, outcome, d)
             logged == IF r.success
                       THEN [r.s EXCEPT !.chat_log = Append(@, LogLine(message_data))]
                       ELSE r.s
         IN [logged EXCEPT !.timers = After(@, logged.now, _min_interval)]
    ELSE [s EXCEPT !.processing = FALSE]

_process_message_queue(s, outcome, d) ==
    IF s.processing \/ s.queue = <<>>
    THEN s
    ELSE IF (s.timeout /\ s.now < s.timeout_until)
            \/ (s.now - s.last_sent < _min_interval)
    THEN LET time_until_ready ==
                 Max(IF s.timeout THEN s.timeout_until - s.now ELSE 0,
                     _min_interval - (s.now - s.last_sent))
         IN [s EXCEPT !.timers = After(@, s.now, time_until_ready),
                      !.processing = FALSE]
    ELSE IF s.queue # <<>>
    THEN LET message_data == Head(s.queue)
             r == _send_message_direct([s EXCEPT !.processing = TRUE,
                                                 !.queue = Tail(@)],
                                       message_data, outcome, d)
             logged == IF r.success
                       THEN [r.s EXCEPT !.chat_log = Append(@, LogLine(message_data))]
                       ELSE r.s
         IN [logged EXCEPT !.timers = After(@, logged.now, _min_interval)]
    ELSE [s EXCEPT !.processing = FALSE]

----------------------------------------------------------------------------
(* add_message_to_queue(text, message_type); id is the history number of   *)
(* the message.  Gives the new state and the value returned.  The          *)
(* 'timestamp' entry of message_data is written and never read; the model  *)
(* does not carry it.                                                      *)

\* variants of add_message_to_queue.  mode says what is changed:
\*   "no_evict"      the queue-full branch removes nothing
\*   "evict_newest"  the queue-full branch removes the last message (pop())
\*   "prepend"       the new message is inserted at the front
\*   "refuse"        a full queue refuses the new message
\*   "send_now"      the message at the front is sent at once, whatever the
\*                   processing flag and the rate limiter say
\*   "raw"           the text is queued as it was passed in, not as
\*                   validate_message returned it
\*   "bypass"        a "music" message is not queued but passed to
\*                   _send_message_direct at once
add_message_to_queue_variant(s, text, message_type, id, outcome, d, mode) ==
    LET v == validate_message(text)
        full == Len(s.queue) >= _max_queue_size
    IN IF ~v.ok \/ (mode = "refuse" /\ full)
       THEN [s |-> s, ret |-> FALSE]
       ELSE LET gone == IF mode = "evict_newest" THEN s.queue[Len(s.queue)]
                        ELSE Head(s.queue)
                kept == IF full /\ mode = "evict_newest"
                        THEN SubSeq(s.queue, 1, Len(s.queue) - 1)
                        ELSE IF full /\ mode # "no_evict" THEN Tail(s.queue)
                        ELSE s.queue
                message_data == [text |-> IF mode = "raw" THEN text ELSE v.text,
                                 type |-> message_type, id |-> id]
                queued == [s EXCEPT !.queue = IF mode = "prepend"
                                              THEN <<message_data>> \o kept
                                              ELSE Append(kept, message_data),
                                    !.evicted = IF full /\ mode # "no_evict"
                                                THEN @ \cup {gone.id} ELSE @]
            IN [s |-> IF mode = "send_now"
                      THEN _send_message_direct([queued EXCEPT !.queue = Tail(@)],
                                                Head(queued.queue), outcome, d).s
                      ELSE IF mode = "bypass" /\ message_type = "music"
                      THEN _send_message_direct(s, message_data, outcome, d).s
                      ELSE IF ~queued.processing
                      THEN _process_message_queue(queued, outcome, d)
                      ELSE queued,
                ret |-> TRUE]

add_message_to_queue_NoEvict(s, text, message_type, id, outcome, d) ==
    add_message_to_queue_variant(s, text, message_type, id, outcome, d, "no_evict")

add_message_to_queue_EvictNewest(s, text, message_type, id, outcome, d) ==
    add_message_to_queue_variant(s, text, message_type, id, outcome, d, "evict_newest")

add_message_to_queue_Prepend(s, text, message_type, id, outcome, d) ==
    add_message_to_queue_variant(s, text, message_type, id, outcome, d, "prepend")

add_message_to_queue_RefuseWhenFull(s, text, message_type, id, outcome, d) ==
    add_message_to_queue_variant(s, text, message_type, id, outcome, d, "refuse")

add_message_to_queue_SendNow(s, text, message_type, id, outcome, d) ==
    add_message_to_queue_variant(s, text, message_type, id, outcome, d, "send_now")

add_message_to_queue_Bypass(s, text, message_type, id, outcome, d) ==
    add_message_to_queue_variant(s, text, message_type, id, outcome, d, "bypass")

add_message_to_queue_Unsanitized(s, text, message_type, id, outcome, d) ==
    add_message_to_queue_variant(s, text, message_type, id, outcome, d, "raw")

add_message_to_queue(s, text, message_type, id, outcome, d) ==
    LET v == validate_message(text)
    IN IF ~v.ok
       THEN [s |-> s, ret |-> FALSE]
       ELSE LET full == Len(s.queue) >= _max_queue_size
                kept == IF full THEN Tail(s.queue) ELSE s.queue
                message_data == [text |-> v.text, type |-> message_type, id |-> id]
                queued == [s EXCEPT !.queue = Append(kept, message_data),
                                    !.evicted = IF full THEN @ \cup {Head(s.queue).id}
                                                ELSE @]
            IN [s |-> IF ~queued.processing
                      THEN _process_message_queue(queued, outcome, d)
                      ELSE queued,
                ret |-> TRUE]

----------------------------------------------------------------------------
(* get_queue_status(): the two values its string is built from *)

get_queue_status ==
    [queue_size |-> Len(_message_queue),
     timeout_status |-> IF _chatbox_timeout THEN "TIMEOUT" ELSE "READY"]

----------------------------------------------------------------------------
(* Inputs *)

\* the texts the producers pass in
Inputs ==
    { <<>>, <<SP>>, <<SP, LF, TAB>>, <<"a">>, <<SP, "a", LF>>, <<NUL, "a", CR>> }

Types == {"general"}

Diagnostics ==
    { <<"S","p","A","m">>, <<"o","s","c">> }

Outcomes == {Returned} \cup {Raised(diag) : diag \in Diagnostics}

\* a text is blank when it is empty or all whitespace
IsBlank(text) == \A i \in 1..Len(text) : text[i] \in Whitespace

----------------------------------------------------------------------------
(* The song poller (select_window, send_and_repeat_song_info), the         *)
(* now-playing animation, the paused ("DVD") animation and on_stt_text.    *)
(* They run on the Tk event loop and schedule themselves with root.after;  *)
(* a delay of d ms is d / 500 ticks.  The "Send current time" and "Send    *)
(* active window" boxes are left unchecked (their initial value), so       *)
(* format_message_with_time returns its argument and a frame has no        *)
(* window line; _last_lyrics is never assigned, so a frame has no lyrics.  *)

\* MUSIC_ANIMATION_INTERVAL = 2000 ms
MUSIC_ANIMATION_INTERVAL == 4

\* root.after(1000, ...) of the restart branch of animate_music_status
RestartDelay == 2

\* DVD_SPEEDS = [1000, 2000, 3000] ms
DVD_SPEEDS == {2, 4, 6}

\* root.after(5000, self.send_and_repeat_song_info)
PollInterval == 10

\* root.after(10000, ...) of on_stt_text
ResumeDelay == 20

\* Python's None where a text is expected; no text equals it
None == <<"None">>

\* None where an id of root.after is expected
NoId == 0

\* self.selected_window = None
NoWindow == [process_name |-> <<>>, title |-> <<>>]

\* characters outside ASCII are named by their code points
MUSIC_ASCII_ANIMATION ==
    <<"UFBA9", "U0668", "U0640", "UFBA9", "UFBA9", "U0668", "U0640",
      "UFBA9", "U0668", "U0640", "UFBA9", "UFBA9", "U0668", "U0640">>

NextTrack == <<"U23ED", "UFE0F">>
PauseSign == <<"U23F8", "UFE0F">>
RedSquare == <<"U1F7E5">>
BlueSquare == <<"U1F7E6">>
EmDash == "U2014"

\* DVD_TRACK_LEN = 7
DVD_TRACK_LEN == 7

Spotify == <<"S", "p", "o", "t", "i", "f", "y">>
SpotifyWebPlayer == <<"S", "p", "o", "t", "i", "f", "y", SP, "-", SP, "W", "e", "b", SP, "P", "l", "a", "y", "e", "r">>

paused_titles ==
    { Spotify, <<"S", "p", "o", "t", "i", "f", "y", SP, "F", "r", "e", "e">>,
      <<"S", "p", "o", "t", "i", "f", "y", SP, "P", "r", "e", "m", "i", "u", "m">>,
      SpotifyWebPlayer }

\* ' - '
Separator == <<SP, "-", SP>>

\* sub stands in s at position i
OccursAt(s, sub, i) ==
    /\ i >= 1
    /\ i + Len(sub) - 1 <= Len(s)
    /\ SubSeq(s, i, i + Len(sub) - 1) = sub

\* the first position from `from` on where sep stands in s, or Len(s) + 1
NextCut(s, sep, from) ==
    LET cuts == {i \in from..Len(s) : OccursAt(s, sep, i)}
    IN IF cuts = {} THEN Len(s) + 1 ELSE First(cuts)

\* window_title.split(' - ') where ' - ' is in window_title:
\* artist, title = parts[0].strip(), parts[1].strip()
SplitTitle(window_title) ==
    LET c1 == NextCut(window_title, Separator, 1)
        c2 == NextCut(window_title, Separator, c1 + Len(Separator))
    IN [artist |-> Strip(SubSeq(window_title, 1, c1 - 1)),
        title |-> Strip(SubSeq(window_title, c1 + Len(Separator), c2 - 1)),
        is_paused |-> FALSE]

\* lines 900-924 of send_and_repeat_song_info: artist, title and is_paused
\* of the selected window.  get_current_song_info returns the window title
\* or None, so `song_info if song_info else window_title` is the title.
SongOf(window) ==
    LET process == Lower(window.process_name)
        window_title == window.title
        nothing == [artist |-> <<>>, title |-> <<>>, is_paused |-> FALSE]
    IN IF Contains(process, <<"s", "p", "o", "t", "i", "f", "y">>)
       THEN IF Contains(window_title, Separator)
            THEN SplitTitle(window_title)
            ELSE IF Strip(window_title) \in paused_titles
                 THEN [artist |-> <<>>, title |-> PauseSign \o <<SP, "P", "a", "u", "s", "e", "d">>,
                       is_paused |-> TRUE]
                 ELSE nothing
       ELSE IF Contains(window_title, Separator)
            THEN SplitTitle(window_title)
            ELSE [nothing EXCEPT !.title = window_title]

\* f"⏭️ Next Song: {title} - {artist}" if artist else
\* f"⏭️ Next Song: {title}"
next_song_msg(title, artist) ==
    NextTrack \o <<SP, "N", "e", "x", "t", SP, "S", "o", "n", "g", ":", SP>> \o title
        \o (IF artist # <<>> THEN Separator \o artist ELSE <<>>)

\* the three characters of MUSIC_ASCII_ANIMATION from idx on, going round
AnimFrame(index) ==
    LET n == Len(MUSIC_ASCII_ANIMATION)
        idx == index % n
    IN [k \in 1..3 |-> MUSIC_ASCII_ANIMATION[((idx + k - 1) % n) + 1]]

\* f"{frame} Now Playing: {title} - {artist}"
anim_text(index, title, artist) ==
    AnimFrame(index) \o <<SP, "N", "o", "w", SP, "P", "l", "a", "y", "i", "n", "g", ":", SP>> \o title \o Separator \o artist

\* the frame of the paused animation with "DVD" left, middle or right
dvd_msg(pos) ==
    LET track == [i \in 1..DVD_TRACK_LEN |-> EmDash]
        mid == DVD_TRACK_LEN \div 2
        dvd_str == <<"D", "V", "D">>
        dvd_line == CASE pos = 0 -> RedSquare \o dvd_str \o track \o BlueSquare
                      [] pos = 1 -> RedSquare \o SubSeq(track, 1, mid) \o dvd_str
                                      \o SubSeq(track, mid + 1, DVD_TRACK_LEN) \o BlueSquare
                      [] OTHER -> RedSquare \o track \o dvd_str \o BlueSquare
    IN PauseSign \o <<SP, "P", "a", "u", "s", "e", "d">> \o <<LF>> \o dvd_line

\* str.isupper() of one character
IsUpper(c) == \E i \in 1..Len(UpperCase) : UpperCase[i] = c

\* the buffer of on_stt_text after text has come in (lines 1054-1066)
Buffered(buffer, text) ==
    IF buffer # <<>> /\ Strip(text) # <<>>
    THEN IF buffer[Len(buffer)] \notin {".", "!", "?"} /\ IsUpper(text[1])
         THEN buffer \o <<".", SP>> \o text
         ELSE buffer \o <<SP>> \o text
    ELSE text

\* the processes whose windows the source list shows
ProcessNames == { <<"S", "p", "o", "t", "i", "f", "y", ".", "e", "x", "e">>, <<"c", "h", "r", "o", "m", "e", ".", "e", "x", "e">> }

\* the titles a window of theirs can have; <<>> when it has no visible window
WindowTitles ==
    { <<"A", SP, "-", SP, "1">>, <<"B", SP, "-", SP, "2">>, Spotify, SpotifyWebPlayer, <<>> }

\* the transcripts the speech-to-text collaborator delivers
Transcripts == { <<"h", "i">> }

\* the events from outside the program that the model counts
EventKinds == {"title", "transcript", "osc", "select"}

\* the windows at the start: both players show a song
DefaultWindows == [p \in ProcessNames |-> <<"A", SP, "-", SP, "1">>]

\* the controllers SteamVR tracks
Controllers == {1}

\* SteamVRGestureRecognizer.__init__ (steamvr_gesture.py, lines 12-16) and
\* RealTimeSTT.__init__ (stt.py, lines 128-133): no thread is started
CollaboratorsConstructed ==
    /\ running = FALSE
    /\ thread = "none"
    /\ last_positions = [i \in Controllers |-> None]
    /\ gesture_detected = <<>>
    /\ gesture_calls = <<>>
    /\ is_listening = FALSE
    /\ stt_threads = {}
    /\ audio_queue = 0
    /\ delivered = <<>>
    /\ listen_result = [called |-> FALSE, ret |-> FALSE]

\* the poller, the animations and the transcript handler after construction;
\* the saved configuration has osc_enabled set (toggle_vrchat_osc saves it)
NothingSelected ==
    /\ started = FALSE
    /\ vrchat_enabled_var = TRUE
    /\ selected_window = NoWindow
    /\ last_sent_song_info = None
    /\ last_sent_artist = None
    /\ _keep_sending_song = FALSE
    /\ _music_anim_running = FALSE
    /\ _music_anim_index = 0
    /\ _music_anim_title = <<>>
    /\ _music_anim_artist = <<>>
    /\ _music_anim_after_id = NoId
    /\ _dvd_anim_running = FALSE
    /\ _dvd_anim_after_id = NoId
    /\ _stt_chat_buffer = <<>>
    /\ after_calls = {}
    /\ after_count = 0
    /\ ran = [handler |-> "none", turn |-> 0]
    /\ events = [k \in EventKinds |-> 0]
    /\ CollaboratorsConstructed

----------------------------------------------------------------------------
(* The state machine *)

\* the threads that call into the queue: the Tk event loop ("main": the
\* handlers of the window and the root.after callbacks) and the
\* transcription thread of RealTimeSTT ("stt"), whose _transcription_loop
\* calls on_stt_text and with it send_chatbox_message itself
Threads == {"main", "stt"}

\* the locals of a call: now of line 162, the place in osc_sent of the
\* message being sent, message_data of line 178, success of line 179
NoMessage == [text |-> <<>>, type |-> "general", id |-> 0]

NoFrame == [now |-> 0, k |-> 0, message_data |-> NoMessage, success |-> FALSE]

\* validate_message was not called yet
NotValidated == [done |-> FALSE, ok |-> FALSE, text |-> <<>>]

\* the state after construction, but for the text to validate
Constructed ==
    /\ _message_queue = <<>>
    /\ _queue_processing = FALSE
    /\ _last_chatbox_sent = 0
    /\ _chatbox_timeout = FALSE
    /\ _chatbox_timeout_until = 0
    /\ timers = EmptyBag
    /\ chat_log = <<>>
    /\ now = StartTime
    /\ osc_sent = <<>>
    /\ evicted = {}
    /\ ncalls = 0
    /\ last_call = [blank |-> TRUE, ret |-> FALSE]
    /\ v_result = NotValidated
    /\ pc = [t \in Threads |-> "idle"]
    /\ frame = [t \in Threads |-> NoFrame]
    /\ NothingSelected

Init ==
    /\ Constructed
    /\ v_text = <<>>
    /\ windows = DefaultWindows

\* history: the number of messages accepted so far; an accepted message is
\* in the queue, or was evicted, or was handed to the OSC client
Accepted == Len(_message_queue) + Cardinality(evicted) + Len(osc_sent)

\* a producer calls send_chatbox_message(text, message_type)
send_chatbox_message ==
    \E text \in Inputs, message_type \in Types, outcome \in Outcomes,
       d \in 0..MaxSendTicks :
         LET r == add_message_to_queue(State, text, message_type, Accepted + 1, outcome, d)
         IN /\ IF r.ret THEN Accepted < MaxAccepted
                        ELSE ncalls - Accepted < MaxRejected
            /\ r.s.now <= StartTime + MaxTime
            /\ Install(r.s)
            /\ ncalls' = ncalls + 1
            /\ last_call' = [blank |-> IsBlank(text), ret |-> r.ret]
            /\ UNCHANGED <<v_text, v_result, pc, frame,
                   ui_vars>>

\* the event loop runs a due root.after callback
TimerFires ==
    \E due \in BagToSet(timers), outcome \in Outcomes, d \in 0..MaxSendTicks :
        /\ due <= now
        /\ LET s == _process_message_queue(
                        [State EXCEPT !.timers = @ (-) SetToBag({due})], outcome, d)
           IN /\ s.now <= StartTime + MaxTime
              /\ Install(s)
        /\ UNCHANGED <<ncalls, last_call, v_text, v_result, pc, frame,
                   ui_vars>>

\* time passes.  Until the first message is accepted the program holds no
\* time of its own (0 in _last_chatbox_sent and _chatbox_timeout_until is
\* further back than any interval), so the clock is let run from then on.
Tick ==
    /\ Accepted > 0
    /\ now < StartTime + MaxTime
    /\ now' = now + 1
    /\ UNCHANGED <<_message_queue, _queue_processing, _last_chatbox_sent,
                   _chatbox_timeout, _chatbox_timeout_until, timers, chat_log,
                   osc_sent, evicted, ncalls, last_call, v_text, v_result, pc, frame,
                   ui_vars>>

Next == send_chatbox_message \/ TimerFires \/ Tick

Spec == Init /\ [][Next]_vars

\* the same steps, with the timers firing and the clock running
FairSpec == Init /\ [][Next]_vars /\ WF_vars(TimerFires) /\ WF_vars(Tick)

----------------------------------------------------------------------------
(* The producers, each with the message type it passes and a text of the   *)
(* kind it builds: the chat entry typed by the user, the transcript buffer *)
(* of on_stt_text (it grows with every transcript), the phrase of a        *)
(* gesture, the frame of the now-playing animation (frame, title and       *)
(* lyrics on lines of their own), the frame of the paused animation        *)
(* ("Paused" and the track on two lines) and the next-song banner.         *)

\* at most this many messages of the producers are accepted
MaxProduced == 3

\* the clock of ProducerSpec stops after this many ticks past the start
MaxProducerTime == 5

Productions ==
    { [type |-> "manual", text |-> <<"h", NUL, "i", CR, LF>>],
      [type |-> "stt", text |-> Repeat(<<"a", SP>>, _max_message_length + 6)],
      [type |-> "gesture", text |-> <<"H", "i", "!">>],
      [type |-> "music", text |-> <<"n", "p", LF, "l", "a">>],
      [type |-> "dvd", text |-> <<"P", LF, "D", "V", "D">>],
      [type |-> "general", text |-> <<"N", "e", "x", "t">>] }

\* the lines a producer appends to the chat log itself, by what
\* send_chatbox_message returned: on_gesture_text (line 433) and
\* send_and_repeat_song_info (lines 939, 942) do, the others do not
ProducerLog(p, ret) ==
    CASE p.type = "gesture" /\ ret -> << [type |-> "Gesture", text |-> p.text] >>
      [] p.type = "general" /\ ret -> << [type |-> "Next Song", text |-> p.text] >>
      [] p.type = "general" /\ ~ret ->
             << [type |-> "[Rate Limited] Next Song", text |-> p.text] >>
      [] OTHER -> << >>

\* send_vrchat_message, on_stt_text, on_gesture_text, animate_music_status,
\* animate_dvd_status or send_and_repeat_song_info calls send_chatbox_message
\* and logs what it logs
Producers ==
    \E p \in Productions, outcome \in Outcomes, d \in 0..MaxSendTicks :
        LET r == add_message_to_queue(State, p.text, p.type, Accepted + 1, outcome, d)
        IN /\ Accepted < MaxProduced
           /\ Install([r.s EXCEPT !.chat_log = @ \o ProducerLog(p, r.ret)])
           /\ ncalls' = ncalls + 1
           /\ last_call' = [blank |-> IsBlank(p.text), ret |-> r.ret]
           /\ UNCHANGED <<v_text, v_result, pc, frame,
                   ui_vars>>

ProducerTick ==
    /\ Accepted > 0
    /\ now < StartTime + MaxProducerTime
    /\ now' = now + 1
    /\ UNCHANGED <<_message_queue, _queue_processing, _last_chatbox_sent,
                   _chatbox_timeout, _chatbox_timeout_until, timers, chat_log,
                   osc_sent, evicted, ncalls, last_call, v_text, v_result, pc, frame,
                   ui_vars>>

NextP == Producers \/ TimerFires \/ ProducerTick

ProducerSpec == Init /\ [][NextP]_vars

----------------------------------------------------------------------------
(* The same functions run by two threads, one statement at a time.  The    *)
(* functions take no lock; on_stt_text runs on the transcription thread    *)
(* while the event loop runs the other producers and the timers.  A step   *)
(* is one statement of main.py, named by its function and line; lines      *)
(* 127-147 of add_message_to_queue (validate, make room, append) are taken *)
(* as one step, and so are the pop of line 178 with the call of the OSC    *)
(* client, and the log of line 182 with the root.after of line 185.        *)

\* at most this many messages are accepted from the threads
MaxThreadAccepted == 3

\* the clock of ThreadSpec stops after this many ticks past the start
MaxThreadTime == 4

\* the text a thread passes in
ThreadInputs == { <<NUL, "a", CR>> }

\* the message type passed by the producer of a thread: send_vrchat_message
\* on the event loop, on_stt_text on the transcription thread
ThreadType(t) == IF t = "stt" THEN "stt" ELSE "manual"

Goto(t, line) == pc' = [pc EXCEPT ![t] = line]

\* the call returns (or an exception leaves it)
Return(t) ==
    /\ pc' = [pc EXCEPT ![t] = "idle"]
    /\ frame' = [frame EXCEPT ![t] = NoFrame]

\* add_message_to_queue, lines 127-147
add_l127(t) ==
    /\ pc[t] = "idle"
    /\ \E text \in ThreadInputs :
         LET v == validate_message(text)
             full == Len(_message_queue) >= _max_queue_size
             kept == IF full THEN Tail(_message_queue) ELSE _message_queue
             message_data == [text |-> v.text, type |-> ThreadType(t), id |-> Accepted + 1]
         IN /\ IF v.ok THEN Accepted < MaxThreadAccepted
                        ELSE ncalls - Accepted < MaxRejected
            /\ ncalls' = ncalls + 1
            /\ last_call' = [blank |-> IsBlank(text), ret |-> v.ok]
            /\ IF v.ok
               THEN /\ _message_queue' = Append(kept, message_data)
                    /\ evicted' = IF full THEN evicted \cup {Head(_message_queue).id}
                                  ELSE evicted
                    /\ Goto(t, "l150")
               ELSE UNCHANGED <<_message_queue, evicted, pc>>
    /\ UNCHANGED <<_queue_processing, _last_chatbox_sent, _chatbox_timeout,
                   _chatbox_timeout_until, timers, chat_log, now, osc_sent,
                   v_text, v_result, frame,
                   ui_vars>>

\* add_message_to_queue, line 150: if not self._queue_processing
add_l150(t) ==
    /\ pc[t] = "l150"
    /\ IF ~_queue_processing THEN Goto(t, "l157") /\ UNCHANGED frame ELSE Return(t)
    /\ UNCHANGED <<_message_queue, _queue_processing, _last_chatbox_sent,
                   _chatbox_timeout, _chatbox_timeout_until, timers, chat_log, now,
                   osc_sent, evicted, ncalls, last_call, v_text, v_result,
                   ui_vars>>

\* the event loop runs a due root.after callback: _process_message_queue
timer_callback ==
    /\ pc["main"] = "idle"
    /\ \E due \in BagToSet(timers) :
         /\ due <= now
         /\ timers' = timers (-) SetToBag({due})
    /\ Goto("main", "l157")
    /\ UNCHANGED <<_message_queue, _queue_processing, _last_chatbox_sent,
                   _chatbox_timeout, _chatbox_timeout_until, chat_log, now,
                   osc_sent, evicted, ncalls, last_call, v_text, v_result, frame,
                   ui_vars>>

\* _process_message_queue, line 157
drain_l157(t) ==
    /\ pc[t] = "l157"
    /\ IF _queue_processing \/ _message_queue = <<>>
       THEN Return(t)
       ELSE Goto(t, "l160") /\ UNCHANGED frame
    /\ UNCHANGED <<_message_queue, _queue_processing, _last_chatbox_sent,
                   _chatbox_timeout, _chatbox_timeout_until, timers, chat_log, now,
                   osc_sent, evicted, ncalls, last_call, v_text, v_result,
                   ui_vars>>

\* line 160: self._queue_processing = True
drain_l160(t) ==
    /\ pc[t] = "l160"
    /\ _queue_processing' = TRUE
    /\ Goto(t, "l162")
    /\ UNCHANGED <<_message_queue, _last_chatbox_sent, _chatbox_timeout,
                   _chatbox_timeout_until, timers, chat_log, now, osc_sent, evicted,
                   ncalls, last_call, v_text, v_result, frame,
                   ui_vars>>

\* line 162: now = time.time()
drain_l162(t) ==
    /\ pc[t] = "l162"
    /\ frame' = [frame EXCEPT ![t].now = now]
    /\ Goto(t, "l165")
    /\ UNCHANGED <<_message_queue, _queue_processing, _last_chatbox_sent,
                   _chatbox_timeout, _chatbox_timeout_until, timers, chat_log, now,
                   osc_sent, evicted, ncalls, last_call, v_text, v_result,
                   ui_vars>>

\* lines 165-166: must the drain wait?
drain_l165(t) ==
    /\ pc[t] = "l165"
    /\ IF (_chatbox_timeout /\ frame[t].now < _chatbox_timeout_until)
          \/ (frame[t].now - _last_chatbox_sent < _min_interval)
       THEN Goto(t, "l168")
       ELSE Goto(t, "l177")
    /\ UNCHANGED <<_message_queue, _queue_processing, _last_chatbox_sent,
                   _chatbox_timeout, _chatbox_timeout_until, timers, chat_log, now,
                   osc_sent, evicted, ncalls, last_call, v_text, v_result, frame,
                   ui_vars>>

\* variant: the waiting drain takes the front message off the queue
drain_l168_Drops(t) ==
    /\ pc[t] = "l168"
    /\ LET time_until_ready ==
               Max(IF _chatbox_timeout THEN _chatbox_timeout_until - frame[t].now ELSE 0,
                   _min_interval - (frame[t].now - _last_chatbox_sent))
       IN timers' = After(timers, now, time_until_ready)
    /\ _message_queue' = IF _message_queue # <<>> THEN Tail(_message_queue) ELSE <<>>
    /\ Goto(t, "l173")
    /\ UNCHANGED <<_queue_processing, _last_chatbox_sent,
                   _chatbox_timeout, _chatbox_timeout_until, chat_log, now,
                   osc_sent, evicted, ncalls, last_call, v_text, v_result, frame,
                   ui_vars>>

\* lines 168-172: time_until_ready and root.after
drain_l168(t) ==
    /\ pc[t] = "l168"
    /\ LET time_until_ready ==
               Max(IF _chatbox_timeout THEN _chatbox_timeout_until - frame[t].now ELSE 0,
                   _min_interval - (frame[t].now - _last_chatbox_sent))
       IN timers' = After(timers, now, time_until_ready)
    /\ Goto(t, "l173")
    /\ UNCHANGED <<_message_queue, _queue_processing, _last_chatbox_sent,
                   _chatbox_timeout, _chatbox_timeout_until, chat_log, now,
                   osc_sent, evicted, ncalls, last_call, v_text, v_result, frame,
                   ui_vars>>

\* lines 173-174: self._queue_processing = False; return
drain_l173(t) ==
    /\ pc[t] = "l173"
    /\ _queue_processing' = FALSE
    /\ Return(t)
    /\ UNCHANGED <<_message_queue, _last_chatbox_sent, _chatbox_timeout,
                   _chatbox_timeout_until, timers, chat_log, now, osc_sent, evicted,
                   ncalls, last_call, v_text, v_result,
                   ui_vars>>

\* line 177: if self._message_queue, with the else of lines 186-187:
\* self._queue_processing = False
drain_l177(t) ==
    /\ pc[t] = "l177"
    /\ IF _message_queue # <<>>
       THEN Goto(t, "l178") /\ UNCHANGED <<_queue_processing, frame>>
       ELSE _queue_processing' = FALSE /\ Return(t)
    /\ UNCHANGED <<_message_queue, _last_chatbox_sent, _chatbox_timeout,
                   _chatbox_timeout_until, timers, chat_log, now, osc_sent, evicted,
                   ncalls, last_call, v_text, v_result,
                   ui_vars>>

\* line 178: message_data = self._message_queue.pop(0), and the call of
\* osc_client.send_chat_message (lines 179, 193-195).  pop(0) on a queue
\* another thread has emptied raises IndexError, which leaves the call.
drain_l178(t) ==
    /\ pc[t] = "l178"
    /\ IF _message_queue = <<>>
       THEN /\ Return(t)
            /\ UNCHANGED <<_message_queue, osc_sent>>
       ELSE LET message_data == Head(_message_queue)
            IN /\ _message_queue' = Tail(_message_queue)
               /\ osc_sent' = Append(osc_sent, [id |-> message_data.id,
                                                text |-> message_data.text,
                                                at |-> now, done |-> now,
                                                outcome |-> Returned])
               /\ frame' = [frame EXCEPT ![t].message_data = message_data,
                                         ![t].k = Len(osc_sent) + 1]
               /\ Goto(t, "l196")
    /\ UNCHANGED <<_queue_processing, _last_chatbox_sent, _chatbox_timeout,
                   _chatbox_timeout_until, timers, chat_log, now, evicted,
                   ncalls, last_call, v_text, v_result,
                   ui_vars>>

\* variants of send_l196.  mode says what is changed:
\*   "any_failure"   every exception starts the spam timeout
\*   "stamp_always"  _last_chatbox_sent is written after a failure too
\*   "requeue"       a message whose send failed is put back at the front
send_l196_variant(t, mode) ==
    /\ pc[t] = "l196"
    /\ \E outcome \in Outcomes :
         /\ osc_sent' = [osc_sent EXCEPT ![frame[t].k].done = now,
                                         ![frame[t].k].outcome = outcome]
         /\ frame' = [frame EXCEPT ![t].success = ~outcome.raised]
         /\ _last_chatbox_sent' = IF ~outcome.raised \/ mode = "stamp_always"
                                  THEN now ELSE _last_chatbox_sent
         /\ IF outcome.raised /\ (IsSpam(outcome.diag) \/ mode = "any_failure")
            THEN /\ _chatbox_timeout' = TRUE
                 /\ _chatbox_timeout_until' = now + SpamPause
            ELSE UNCHANGED <<_chatbox_timeout, _chatbox_timeout_until>>
         /\ _message_queue' = IF outcome.raised /\ mode = "requeue"
                              THEN <<frame[t].message_data>> \o _message_queue
                              ELSE _message_queue
    /\ Goto(t, "l181")
    /\ UNCHANGED <<_queue_processing, timers, chat_log, now,
                   evicted, ncalls, last_call, v_text, v_result,
                   ui_vars>>

send_l196_AnyFailure(t) == send_l196_variant(t, "any_failure")

send_l196_StampAlways(t) == send_l196_variant(t, "stamp_always")

send_l196_Requeue(t) == send_l196_variant(t, "requeue")

\* _send_message_direct, lines 195-205: the call of the OSC client returns
\* or raises
send_l196(t) ==
    /\ pc[t] = "l196"
    /\ \E outcome \in Outcomes :
         /\ osc_sent' = [osc_sent EXCEPT ![frame[t].k].done = now,
                                         ![frame[t].k].outcome = outcome]
         /\ frame' = [frame EXCEPT ![t].success = ~outcome.raised]
         /\ _last_chatbox_sent' = IF ~outcome.raised THEN now ELSE _last_chatbox_sent
         /\ IF outcome.raised /\ IsSpam(outcome.diag)
            THEN /\ _chatbox_timeout' = TRUE
                 /\ _chatbox_timeout_until' = now + SpamPause
            ELSE UNCHANGED <<_chatbox_timeout, _chatbox_timeout_until>>
    /\ Goto(t, "l181")
    /\ UNCHANGED <<_message_queue, _queue_processing, timers, chat_log, now,
                   evicted, ncalls, last_call, v_text, v_result,
                   ui_vars>>

\* lines 181-185: append_chat_log on success, root.after(1500, ...); the
\* function ends here, the flag as line 160 set it
drain_l181(t) ==
    /\ pc[t] = "l181"
    /\ chat_log' = IF frame[t].success
                   THEN Append(chat_log, LogLine(frame[t].message_data))
                   ELSE chat_log
    /\ timers' = After(timers, now, _min_interval)
    /\ Return(t)
    /\ UNCHANGED <<_message_queue, _queue_processing, _last_chatbox_sent,
                   _chatbox_timeout, _chatbox_timeout_until, now, osc_sent, evicted,
                   ncalls, last_call, v_text, v_result,
                   ui_vars>>

ThreadTick ==
    /\ Accepted > 0
    /\ now < StartTime + MaxThreadTime
    /\ now' = now + 1
    /\ UNCHANGED <<_message_queue, _queue_processing, _last_chatbox_sent,
                   _chatbox_timeout, _chatbox_timeout_until, timers, chat_log,
                   osc_sent, evicted, ncalls, last_call, v_text, v_result, pc, frame,
                   ui_vars>>

NextT ==
    \/ \E t \in Threads : add_l127(t)
    \/ \E t \in Threads : add_l150(t)
    \/ timer_callback
    \/ \E t \in Threads : drain_l157(t)
    \/ \E t \in Threads : drain_l160(t)
    \/ \E t \in Threads : drain_l162(t)
    \/ \E t \in Threads : drain_l165(t)
    \/ \E t \in Threads : drain_l168(t)
    \/ \E t \in Threads : drain_l173(t)
    \/ \E t \in Threads : drain_l177(t)
    \/ \E t \in Threads : drain_l178(t)
    \/ \E t \in Threads : send_l196(t)
    \/ \E t \in Threads : drain_l181(t)
    \/ ThreadTick

ThreadSpec == Init /\ [][NextT]_vars

----------------------------------------------------------------------------
(* add_message_to_queue run by two threads with its statements apart: the  *)
(* test of the queue size (line 135), the pop of the oldest message (line  *)
(* 137) and the append (line 147) are steps of their own, and the other    *)
(* thread may run between them.  The threads start when the queue is one   *)
(* short of full: the first message was sent, the flag has stayed set, and *)
(* the messages after it are waiting.                                      *)

\* at most this many calls of add_message_to_queue are made by the threads
MaxRaceCalls == 3

\* the calls of add_message_to_queue before the threads start
FillCalls == _max_queue_size

ConstructedState ==
    [queue |-> <<>>, processing |-> FALSE, last_sent |-> 0, timeout |-> FALSE,
     timeout_until |-> 0, timers |-> EmptyBag, chat_log |-> <<>>,
     now |-> StartTime, osc_sent |-> <<>>, evicted |-> {}]

\* the state after n calls of send_vrchat_message on the event loop, each
\* send of the OSC client returning at once
RECURSIVE Filled(_)
Filled(n) ==
    IF n = 0 THEN ConstructedState
    ELSE add_message_to_queue(Filled(n - 1), <<NUL, "a", CR>>, "manual", n,
                              Returned, 0).s

InitRace ==
    /\ _message_queue = Filled(FillCalls).queue
    /\ _queue_processing = Filled(FillCalls).processing
    /\ _last_chatbox_sent = Filled(FillCalls).last_sent
    /\ _chatbox_timeout = Filled(FillCalls).timeout
    /\ _chatbox_timeout_until = Filled(FillCalls).timeout_until
    /\ timers = Filled(FillCalls).timers
    /\ chat_log = Filled(FillCalls).chat_log
    /\ now = Filled(FillCalls).now
    /\ osc_sent = Filled(FillCalls).osc_sent
    /\ evicted = Filled(FillCalls).evicted
    /\ ncalls = FillCalls
    /\ last_call = [blank |-> FALSE, ret |-> TRUE]
    /\ v_result = NotValidated
    /\ pc = [t \in Threads |-> "idle"]
    /\ frame = [t \in Threads |-> NoFrame]
    /\ NothingSelected
    /\ v_text = <<>>
    /\ windows = DefaultWindows

\* lines 129-132: validate_message, and return False for a text it rejects
enq_l129(t) ==
    /\ pc[t] = "idle"
    /\ ncalls < FillCalls + MaxRaceCalls
    /\ \E text \in ThreadInputs :
         /\ ncalls' = ncalls + 1
         /\ last_call' = [blank |-> IsBlank(text), ret |-> validate_message(text).ok]
         /\ frame' = [frame EXCEPT ![t].message_data.text = validate_message(text).text]
         /\ IF validate_message(text).ok THEN Goto(t, "l135") ELSE UNCHANGED pc
    /\ UNCHANGED <<_message_queue, _queue_processing, _last_chatbox_sent,
                   _chatbox_timeout, _chatbox_timeout_until, timers, chat_log, now,
                   osc_sent, evicted, v_text, v_result, ui_vars>>

\* line 135: if len(self._message_queue) >= self._max_queue_size
enq_l135(t) ==
    /\ pc[t] = "l135"
    /\ IF Len(_message_queue) >= _max_queue_size
       THEN Goto(t, "l137")
       ELSE Goto(t, "l147")
    /\ UNCHANGED <<_message_queue, _queue_processing, _last_chatbox_sent,
                   _chatbox_timeout, _chatbox_timeout_until, timers, chat_log, now,
                   osc_sent, evicted, ncalls, last_call, v_text, v_result, frame,
                   ui_vars>>

\* line 137: self._message_queue.pop(0); on an empty queue it raises
\* IndexError, which leaves the call
enq_l137(t) ==
    /\ pc[t] = "l137"
    /\ IF _message_queue = <<>>
       THEN /\ Return(t)
            /\ UNCHANGED <<_message_queue, evicted>>
       ELSE /\ _message_queue' = Tail(_message_queue)
            /\ evicted' = evicted \cup {Head(_message_queue).id}
            /\ Goto(t, "l147")
            /\ UNCHANGED frame
    /\ UNCHANGED <<_queue_processing, _last_chatbox_sent, _chatbox_timeout,
                   _chatbox_timeout_until, timers, chat_log, now, osc_sent,
                   ncalls, last_call, v_text, v_result, ui_vars>>

\* lines 141-147: message_data is made and appended
enq_l147(t) ==
    /\ pc[t] = "l147"
    /\ _message_queue' = Append(_message_queue,
                                [text |-> frame[t].message_data.text,
                                 type |-> ThreadType(t), id |-> Accepted + 1])
    /\ frame' = [frame EXCEPT ![t] = NoFrame]
    /\ Goto(t, "l150")
    /\ UNCHANGED <<_queue_processing, _last_chatbox_sent, _chatbox_timeout,
                   _chatbox_timeout_until, timers, chat_log, now, osc_sent, evicted,
                   ncalls, last_call, v_text, v_result, ui_vars>>

\* the flag is set and stays set, so line 150 returns, and a timer that
\* fires returns at line 157
NextRace ==
    \/ \E t \in Threads : enq_l129(t)
    \/ \E t \in Threads : enq_l135(t)
    \/ \E t \in Threads : enq_l137(t)
    \/ \E t \in Threads : enq_l147(t)
    \/ \E t \in Threads : add_l150(t)
    \/ timer_callback
    \/ \E t \in Threads : drain_l157(t)
    \/ ThreadTick

RaceSpec == InitRace /\ [][NextRace]_vars

----------------------------------------------------------------------------
(* The poller, the animations and on_stt_text as handlers of the event     *)
(* loop.  A handler and the functions it calls are composed on one record  *)
(* of the program state; root.after hands out ids in rising order and      *)
(* after_cancel removes the callback with the given id, if it is pending.  *)

\* at most this many title changes, transcripts and clicks on the
\* "VRChat OSC" box together
MaxEvents == 2

\* at most this many windows are selected
MaxSelects == 1

\* the clock of AnimSpec stops after this many ticks past the start
MaxAnimTime == 24

\* the ticks in a second: the delays of poller and animations are whole
\* seconds, and the clock of AnimSpec goes second by second
Second == 2

\* the outside events so far, but for the selections
Happened == events["title"] + events["transcript"] + events["osc"]

Ui ==
    [q |-> State, ncalls |-> ncalls, last_call |-> last_call,
     started |-> started, vrchat_enabled_var |-> vrchat_enabled_var,
     selected_window |-> selected_window,
     last_sent_song_info |-> last_sent_song_info,
     last_sent_artist |-> last_sent_artist,
     _keep_sending_song |-> _keep_sending_song,
     _music_anim_running |-> _music_anim_running,
     _music_anim_index |-> _music_anim_index,
     _music_anim_title |-> _music_anim_title,
     _music_anim_artist |-> _music_anim_artist,
     _music_anim_after_id |-> _music_anim_after_id,
     _dvd_anim_running |-> _dvd_anim_running,
     _dvd_anim_after_id |-> _dvd_anim_after_id,
     _stt_chat_buffer |-> _stt_chat_buffer,
     after_calls |-> after_calls, after_count |-> after_count]

\* the handler named has run and left the program in state u
InstallUi(u, handler) ==
    /\ Install(u.q)
    /\ ncalls' = u.ncalls
    /\ last_call' = u.last_call
    /\ started' = u.started
    /\ vrchat_enabled_var' = u.vrchat_enabled_var
    /\ selected_window' = u.selected_window
    /\ last_sent_song_info' = u.last_sent_song_info
    /\ last_sent_artist' = u.last_sent_artist
    /\ _keep_sending_song' = u._keep_sending_song
    /\ _music_anim_running' = u._music_anim_running
    /\ _music_anim_index' = u._music_anim_index
    /\ _music_anim_title' = u._music_anim_title
    /\ _music_anim_artist' = u._music_anim_artist
    /\ _music_anim_after_id' = u._music_anim_after_id
    /\ _dvd_anim_running' = u._dvd_anim_running
    /\ _dvd_anim_after_id' = u._dvd_anim_after_id
    /\ _stt_chat_buffer' = u._stt_chat_buffer
    /\ after_calls' = u.after_calls
    /\ after_count' = u.after_count
    /\ ran' = [handler |-> handler, turn |-> 1 - ran.turn]
    /\ UNCHANGED <<v_text, v_result, pc, frame, gesture_vars, stt_vars>>

\* what the OSC client does with a message handed to it, and how long it
\* takes: in AnimSpec the client returns at once
Fates == [outcome : {Returned}, d : {0}]

\* add_message_to_queue hands a message to the OSC client only when the
\* processing flag is clear; when it is set the fate is not looked at
FatesOf(u) == IF u.q.processing THEN {[outcome |-> Returned, d |-> 0]} ELSE Fates

\* self.send_chatbox_message(text, message_type)
SendChatbox(u, text, message_type, fate) ==
    LET id == Len(u.q.queue) + Cardinality(u.q.evicted) + Len(u.q.osc_sent) + 1
        r == add_message_to_queue(u.q, text, message_type, id, fate.outcome, fate.d)
    IN [u EXCEPT !.q = r.s, !.ncalls = @ + 1,
                 !.last_call = [blank |-> IsBlank(text), ret |-> r.ret]]

\* self.append_chat_log(f"{label}: {text}")
AppendChatLog(u, label, text) ==
    [u EXCEPT !.q.chat_log = Append(@, [type |-> label, text |-> text])]

\* self.root.after(delay, callback); the id returned is after_count of the result
RootAfter(u, delay, callback) ==
    [u EXCEPT !.after_count = @ + 1,
              !.after_calls = @ \cup {[id |-> u.after_count + 1,
                                       due |-> u.q.now + delay,
                                       callback |-> callback]}]

\* self.root.after_cancel(id)
AfterCancel(u, id) == [u EXCEPT !.after_calls = {c \in @ : c.id # id}]

\* stop_music_animation, lines 241-249
stop_music_animation(u) ==
    LET v == [u EXCEPT !._music_anim_running = FALSE]
    IN IF v._music_anim_after_id # NoId
       THEN [AfterCancel(v, v._music_anim_after_id) EXCEPT !._music_anim_after_id = NoId]
       ELSE v

\* the finally clause of animate_music_status, lines 295-297
animate_music_status_finally(u) ==
    IF u._music_anim_running
    THEN [RootAfter(u, MUSIC_ANIMATION_INTERVAL, "animate_music_status")
             EXCEPT !._music_anim_after_id = u.after_count + 1]
    ELSE u

\* the try block of animate_music_status, lines 252-288
animate_music_status_try(u, send_osc, fate) ==
    IF ~u._music_anim_running
    THEN IF u.started
         THEN [RootAfter([u EXCEPT !._music_anim_running = TRUE], RestartDelay,
                         "animate_music_status")
                  EXCEPT !._music_anim_after_id = u.after_count + 1]
         ELSE u
    ELSE IF send_osc \/ u._music_anim_index > 0
         THEN [SendChatbox(u, anim_text(u._music_anim_index, u._music_anim_title,
                                        u._music_anim_artist), "music", fate)
                  EXCEPT !._music_anim_index = @ + 1]
         ELSE [u EXCEPT !._music_anim_index = @ + 1]

\* animate_music_status, lines 251-297.  `return` in the try block runs the
\* finally clause as well.
animate_music_status(u, send_osc, fate) ==
    animate_music_status_finally(animate_music_status_try(u, send_osc, fate))

\* start_music_animation, lines 234-239
start_music_animation(u, title, artist, fate) ==
    animate_music_status(
        [u EXCEPT !._music_anim_index = 0, !._music_anim_title = title,
                  !._music_anim_artist = artist, !._music_anim_running = TRUE],
        TRUE, fate)

\* variant: stop_dvd_animation clears the flag and leaves the tick pending
stop_dvd_animation_KeepsTick(u) ==
    [u EXCEPT !._dvd_anim_running = FALSE, !._dvd_anim_after_id = NoId]

\* stop_dvd_animation, lines 60-67
stop_dvd_animation(u) ==
    LET v == [u EXCEPT !._dvd_anim_running = FALSE]
    IN IF v._dvd_anim_after_id # NoId
       THEN [AfterCancel(v, v._dvd_anim_after_id) EXCEPT !._dvd_anim_after_id = NoId]
       ELSE v

\* lines 95-96 of animate_dvd_status: the next tick
animate_dvd_status_next(u, next_speed) ==
    [RootAfter(u, next_speed, "animate_dvd_status")
        EXCEPT !._dvd_anim_after_id = u.after_count + 1]

\* animate_dvd_status, lines 69-96; pos and next_speed are random.choice
animate_dvd_status(u, pos, next_speed, fate) ==
    IF ~u._dvd_anim_running
    THEN u
    ELSE animate_dvd_status_next(SendChatbox(u, dvd_msg(pos), "dvd", fate), next_speed)

\* start_dvd_animation, lines 53-58
start_dvd_animation(u, pos, next_speed, fate) ==
    animate_dvd_status([u EXCEPT !._dvd_anim_running = TRUE], pos, next_speed, fate)

\* pos = random.choice([0, 1, 2]): the positions from 0 up to this one are drawn
MaxDvdPos == 0

DvdPositions == 0..MaxDvdPos

\* lines 890-899 of send_and_repeat_song_info: the selected window is read
\* again from wins, what get_window_processes() returns; a process without
\* a titled window is not in that list
refresh_selected_window(u, wins) ==
    IF wins[u.selected_window.process_name] # <<>>
    THEN [u EXCEPT !.selected_window.title = wins[u.selected_window.process_name]]
    ELSE u

\* lines 937-942: the log line of the banner, by what send_chatbox_message returned
log_next_song(u, msg) ==
    AppendChatLog(u, IF u.last_call.ret THEN "Next Song"
                     ELSE "[Rate Limited] Next Song", msg)

\* announce_next_song without the comparison with the last pair
announce_next_song_Always(u, title, artist, fate) ==
    log_next_song(SendChatbox(u, next_song_msg(title, artist), "general", fate),
                  next_song_msg(title, artist))

\* lines 932-942: the banner, when the pair is not the last one handled
announce_next_song(u, title, artist, fate) ==
    IF title # u.last_sent_song_info \/ artist # u.last_sent_artist
    THEN log_next_song(SendChatbox(u, next_song_msg(title, artist), "general", fate),
                       next_song_msg(title, artist))
    ELSE u

\* lines 943-947: the animation is started and the pair remembered
animate_song(u, title, artist, fate) ==
    [start_music_animation(u, title, artist, fate)
        EXCEPT !.last_sent_song_info = title, !.last_sent_artist = artist]

\* lines 925-953: what is done with the song of the window
handle_song(u, song, pos, next_speed, fate1, fate2) ==
    IF song.title # <<>>
    THEN IF song.is_paused
         THEN start_dvd_animation(u, pos, next_speed, fate1)
         ELSE animate_song(announce_next_song(u, song.title, song.artist, fate1),
                           song.title, song.artist, fate2)
    ELSE u

\* lines 900-953
resolve_and_handle(u, pos, next_speed, fate1, fate2) ==
    handle_song(u, SongOf(u.selected_window), pos, next_speed, fate1, fate2)

\* lines 954-955
schedule_next_poll(u) ==
    IF u._keep_sending_song
    THEN RootAfter(u, PollInterval, "send_and_repeat_song_info")
    ELSE u

\* send_and_repeat_song_info, lines 882-955.  The root.after(4000, ...)
\* calls only reset the status line, which is not part of the state.
send_and_repeat_song_info(u, wins, pos, next_speed, fate1, fate2) ==
    IF ~u.started \/ ~u.vrchat_enabled_var \/ u.selected_window = NoWindow
    THEN [u EXCEPT !._keep_sending_song = FALSE]
    ELSE schedule_next_poll(
             resolve_and_handle(
                 refresh_selected_window(
                     stop_dvd_animation(stop_music_animation(u)), wins),
                 pos, next_speed, fate1, fate2))

\* select_window, lines 869-880
select_window(u, window, wins, pos, next_speed, fate1, fate2) ==
    IF u.started /\ u.vrchat_enabled_var
    THEN send_and_repeat_song_info(
             [u EXCEPT !.selected_window = window,
                       !.last_sent_song_info = None, !.last_sent_artist = None,
                       !._keep_sending_song = TRUE],
             wins, pos, next_speed, fate1, fate2)
    ELSE [u EXCEPT !.selected_window = window]

\* lines 1072-1079 of on_stt_text
send_stt_buffer(u, fate) ==
    IF u.vrchat_enabled_var
    THEN SendChatbox(u, u._stt_chat_buffer, "stt", fate)
    ELSE u

\* on_stt_text, lines 1045-1085
on_stt_text(u, text, fate) ==
    RootAfter(
        send_stt_buffer(
            stop_music_animation([u EXCEPT !._stt_chat_buffer = Buffered(@, text)]),
            fate),
        ResumeDelay, "start_music_animation")

\* the callback c is pending and due, and no pending callback is due before
\* it: Tk runs due callbacks in the order of their times, and callbacks of
\* the same time in the order they were registered
Due(c) ==
    /\ c \in after_calls
    /\ c.due <= now
    /\ \A o \in after_calls : o.due > c.due \/ (o.due = c.due /\ o.id >= c.id)

\* the state in which the callback c is run
Fired(c) == [Ui EXCEPT !.after_calls = @ \ {c}]

\* the handler has not run past the end of the model's clock
InTime(u) == u.q.now <= StartTime + MaxAnimTime

\* the outside event of this kind happens once more
Counted(kind) == events' = [events EXCEPT ![kind] = @ + 1]

\* the "Start" button: toggle_routing, lines 986-991
ToggleRouting ==
    /\ ~started
    /\ InstallUi([Ui EXCEPT !.started = TRUE], "toggle_routing")
    /\ UNCHANGED <<windows, events>>

\* a click on the "VRChat OSC" box flips its variable and calls
\* toggle_vrchat_osc, lines 1099-1114; start_osc returns True
ToggleVrchatOsc ==
    /\ Happened < MaxEvents
    /\ InstallUi([Ui EXCEPT !.vrchat_enabled_var = ~@], "toggle_vrchat_osc")
    /\ Counted("osc")
    /\ UNCHANGED windows

\* the window of a process gets another title: the player goes to the next
\* song or is paused, or the window is closed.  Only the process that is
\* selected matters once one is.
TitleChanges ==
    \E p \in ProcessNames, title \in WindowTitles :
        /\ Happened < MaxEvents
        /\ selected_window # NoWindow
        /\ p = selected_window.process_name
        /\ title # windows[p]
        /\ windows' = [windows EXCEPT ![p] = title]
        /\ Counted("title")
        /\ UNCHANGED <<_message_queue, _queue_processing, _last_chatbox_sent,
                       _chatbox_timeout, _chatbox_timeout_until, timers, chat_log,
                       now, osc_sent, evicted, ncalls, last_call, v_text, v_result,
                       pc, frame, started, vrchat_enabled_var, selected_window,
                       last_sent_song_info, last_sent_artist,
                       _keep_sending_song, anim_vars,
                       _stt_chat_buffer, after_calls, after_count, ran,
                       gesture_vars, stt_vars>>

\* a click on a window of the source list, one of at most n
SelectWindowUpTo(n) ==
    \E p \in ProcessNames, pos \in DvdPositions, next_speed \in DVD_SPEEDS,
       fate1 \in FatesOf(Ui), fate2 \in FatesOf(Ui) :
        /\ events["select"] < n
        /\ windows[p] # <<>>
        /\ LET u == select_window(Ui, [process_name |-> p, title |-> windows[p]],
                                  windows, pos, next_speed, fate1, fate2)
           IN InTime(u) /\ InstallUi(u, "select_window")
        /\ Counted("select")
        /\ UNCHANGED windows

SelectWindow == SelectWindowUpTo(MaxSelects)

\* a transcript arrives
OnSttText ==
    \E text \in Transcripts, fate \in FatesOf(Ui) :
        /\ Happened < MaxEvents
        /\ LET u == on_stt_text(Ui, text, fate)
           IN InTime(u) /\ InstallUi(u, "on_stt_text")
        /\ Counted("transcript")
        /\ UNCHANGED windows

\* the event loop runs a due root.after(5000, self.send_and_repeat_song_info)
PollFires ==
    \E c \in after_calls, pos \in DvdPositions, next_speed \in DVD_SPEEDS,
       fate1 \in FatesOf(Ui), fate2 \in FatesOf(Ui) :
        /\ Due(c)
        /\ c.callback = "send_and_repeat_song_info"
        /\ LET u == send_and_repeat_song_info(Fired(c), windows, pos, next_speed,
                                              fate1, fate2)
           IN InTime(u) /\ InstallUi(u, "send_and_repeat_song_info")
        /\ UNCHANGED <<windows, events>>

\* the event loop runs a due tick of the now-playing animation
MusicTickFires ==
    \E c \in after_calls, fate \in FatesOf(Ui) :
        /\ Due(c)
        /\ c.callback = "animate_music_status"
        /\ LET u == animate_music_status(Fired(c), TRUE, fate)
           IN InTime(u) /\ InstallUi(u, "animate_music_status")
        /\ UNCHANGED <<windows, events>>

\* the event loop runs a due tick of the paused animation
DvdTickFires ==
    \E c \in after_calls, pos \in DvdPositions, next_speed \in DVD_SPEEDS,
       fate \in FatesOf(Ui) :
        /\ Due(c)
        /\ c.callback = "animate_dvd_status"
        /\ LET u == animate_dvd_status(Fired(c), pos, next_speed, fate)
           IN InTime(u) /\ InstallUi(u, "animate_dvd_status")
        /\ UNCHANGED <<windows, events>>

\* the event loop runs the due resume of on_stt_text:
\* start_music_animation with the title and artist the animation had
ResumeFires ==
    \E c \in after_calls, fate \in FatesOf(Ui) :
        /\ Due(c)
        /\ c.callback = "start_music_animation"
        /\ LET u == start_music_animation(Fired(c), _music_anim_title,
                                          _music_anim_artist, fate)
           IN InTime(u) /\ InstallUi(u, "start_music_animation")
        /\ UNCHANGED <<windows, events>>

\* time passes while callbacks are pending and none of them is due
AnimTick ==
    /\ after_calls # {} \/ timers # EmptyBag
    /\ \A c \in after_calls : c.due > now
    /\ \A due \in BagToSet(timers) : due > now
    /\ now < StartTime + MaxAnimTime
    /\ now' = now + Second
    /\ UNCHANGED <<_message_queue, _queue_processing, _last_chatbox_sent,
                   _chatbox_timeout, _chatbox_timeout_until, timers, chat_log,
                   osc_sent, evicted, ncalls, last_call, v_text, v_result, pc, frame,
                   ui_vars>>

NextA ==
    \/ ToggleRouting
    \/ ToggleVrchatOsc
    \/ TitleChanges
    \/ SelectWindow
    \/ OnSttText
    \/ PollFires
    \/ MusicTickFires
    \/ DvdTickFires
    \/ ResumeFires
    \/ TimerFires
    \/ AnimTick

\* the Spotify window shows a song, or one of two titles of the paused
\* player; the browser shows a song
InitialWindows ==
    { [p \in ProcessNames |->
          IF Contains(Lower(p), <<"s", "p", "o", "t", "i", "f", "y">>)
          THEN title ELSE DefaultWindows[p]] :
        title \in WindowTitles \ {<<>>} }

InitA ==
    /\ Constructed
    /\ v_text = <<>>
    /\ windows \in InitialWindows

AnimSpec == InitA /\ [][NextA]_vars

----------------------------------------------------------------------------
(* The poller on its own: the user starts the session, selects a window,   *)
(* selects one again and clicks the "VRChat OSC" box; titles stay as they  *)
(* are and no transcript arrives.                                          *)

\* at most this many windows are selected in PollerSpec
MaxReselects == 2

SelectAgain == SelectWindowUpTo(MaxReselects)

NextPoller ==
    \/ ToggleRouting
    \/ ToggleVrchatOsc
    \/ SelectAgain
    \/ PollFires
    \/ MusicTickFires
    \/ DvdTickFires
    \/ TimerFires
    \/ AnimTick

PollerSpec == InitA /\ [][NextPoller]_vars

----------------------------------------------------------------------------
(* The transcript handler on its own: transcripts come in one after the    *)
(* other, short ones and long ones, and nothing clears the buffer          *)
(* (clear_stt_buffer has no caller).                                       *)

\* at most this many transcripts arrive in SttSpec
MaxTranscripts == 3

\* the length of a long transcript: two of them fit into one message, three
\* do not
LongTranscript == 70

\* the transcripts of SttSpec
SttTranscripts ==
    { <<"h", "i">>, <<"Y", "o">>, Repeat(<<"a">>, LongTranscript) }

\* a transcript arrives, one of at most MaxTranscripts
OnSttTextAgain ==
    \E text \in SttTranscripts, fate \in FatesOf(Ui) :
        /\ events["transcript"] < MaxTranscripts
        /\ LET u == on_stt_text(Ui, text, fate)
           IN InTime(u) /\ InstallUi(u, "on_stt_text")
        /\ Counted("transcript")
        /\ UNCHANGED windows

NextStt ==
    \/ OnSttTextAgain
    \/ ResumeFires
    \/ MusicTickFires
    \/ TimerFires
    \/ AnimTick

SttSpec == InitA /\ [][NextStt]_vars

----------------------------------------------------------------------------
(* The gesture recognizer (steamvr_gesture.py): the "Enable SteamVR        *)
(* Gesture-to-Text" box starts and stops it, and its thread runs           *)
(* _poll_loop, one round of the while loop a step.  Positions are in       *)
(* hundredths of a metre.                                                  *)

\* threshold of _detect_gesture, line 81: 0.15
GestureThreshold == 15

\* gesture_map, lines 17-22
gesture_map ==
    [swipe_up |-> <<"H", "e", "l", "l", "o", "!">>,
     swipe_down |-> <<"T", "h", "a", "n", "k", SP, "y", "o", "u", "!">>,
     swipe_left |-> <<"N", "e", "e", "d", SP, "h", "e", "l", "p", "!">>,
     swipe_right |-> <<"G", "o", "o", "d", "b", "y", "e", "!">>]

\* _detect_gesture, lines 79-90
_detect_gesture(dx, dy, dz) ==
    CASE dy > GestureThreshold -> "swipe_up"
      [] dy <= GestureThreshold /\ dy < -GestureThreshold -> "swipe_down"
      [] dy <= GestureThreshold /\ dy >= -GestureThreshold /\ dx > GestureThreshold
             -> "swipe_right"
      [] dy <= GestureThreshold /\ dy >= -GestureThreshold /\ dx <= GestureThreshold
            /\ dx < -GestureThreshold -> "swipe_left"
      [] OTHER -> "None"

\* the coordinates a controller is seen at
Coordinates == {0, 20}

\* the poses a round of the loop reads for a controller: a position, or
\* None when bPoseIsValid is false
Poses == {<<x, y, 0>> : x \in Coordinates, y \in Coordinates} \cup {None}

\* at most this many gestures are detected
MaxGestures == 2

\* what the steps of the recognizer leave as it is
GestureFrame ==
    UNCHANGED <<_message_queue, _queue_processing, _last_chatbox_sent,
                _chatbox_timeout, _chatbox_timeout_until, timers, chat_log, now,
                osc_sent, evicted, ncalls, last_call, v_text, v_result, frame,
                poller_vars, anim_vars, _stt_chat_buffer, after_calls,
                after_count, ran, events, stt_vars>>

\* toggle_steamvr_gesture with the box checked (main.py, lines 370-378):
\* start(), lines 24-33, with openvr installed
GestureStart ==
    /\ pc["main"] = "idle"
    /\ ~running
    /\ running' = TRUE
    /\ thread' = "l47"
    /\ UNCHANGED <<last_positions, gesture_detected, gesture_calls, pc>>
    /\ GestureFrame

\* toggle_steamvr_gesture with the box unchecked (main.py, lines 390-396):
\* stop(), lines 35-38, up to the join
GestureStop ==
    /\ pc["main"] = "idle"
    /\ running
    /\ running' = FALSE
    /\ pc' = [pc EXCEPT !["main"] = "join"]
    /\ UNCHANGED <<thread, last_positions, gesture_detected, gesture_calls>>
    /\ GestureFrame

\* thread.join() returns when the thread has ended
GestureJoined ==
    /\ pc["main"] = "join"
    /\ thread \in {"ended", "died"}
    /\ pc' = [pc EXCEPT !["main"] = "idle"]
    /\ UNCHANGED gesture_vars
    /\ GestureFrame

\* the while test of line 47 fails: _poll_loop returns
PollLoopEnds ==
    /\ thread = "l47"
    /\ ~running
    /\ thread' = "ended"
    /\ UNCHANGED <<running, last_positions, gesture_detected, gesture_calls, pc>>
    /\ GestureFrame

\* lines 64-76 for controller i seen at pos: a gesture with a phrase is
\* printed (line 72) and line 75 evaluates self.callback, an attribute the
\* recognizer does not have (line 13 sets gesture_callback): AttributeError
\* ends the thread before line 76
PollController(i, pos) ==
    LET last_pos == last_positions[i]
        gesture == IF last_pos # None
                   THEN _detect_gesture(pos[1] - last_pos[1], pos[2] - last_pos[2],
                                        pos[3] - last_pos[3])
                   ELSE "None"
    IN IF gesture # "None"
       THEN /\ Len(gesture_detected) < MaxGestures
            /\ gesture_detected' = Append(gesture_detected, gesture_map[gesture])
            /\ thread' = "died"
            /\ UNCHANGED <<last_positions, gesture_calls>>
       ELSE /\ last_positions' = [last_positions EXCEPT ![i] = pos]
            /\ UNCHANGED <<thread, gesture_detected, gesture_calls>>

\* one round of the while loop, lines 47-77
PollRound ==
    /\ thread = "l47"
    /\ running
    /\ \E i \in Controllers, pose \in Poses :
          IF pose # None
          THEN PollController(i, pose)
          ELSE UNCHANGED <<thread, last_positions, gesture_detected, gesture_calls>>
    /\ UNCHANGED <<running, pc>>
    /\ GestureFrame

NextG ==
    \/ GestureStart
    \/ GestureStop
    \/ GestureJoined
    \/ PollLoopEnds
    \/ PollRound

GestureSpec == Init /\ [][NextG]_vars

----------------------------------------------------------------------------
(* The speech-to-text collaborator (stt.py, RealTimeSTT): start_listening  *)
(* and stop_listening are called by toggle_stt, and each session runs two  *)
(* daemon threads, _audio_capture_loop and _transcription_loop.  A thread  *)
(* is at the test of its while loop ("while"), inside a blocking call      *)
(* ("read", "get", "transcribe") or has returned ("ended").  The callback  *)
(* belongs to the caller; that a thread calls it is recorded in delivered. *)

\* at most this many sessions are started
MaxSessions == 2

\* at most this many audio segments wait in audio_queue
MaxAudio == 1

\* at most this many transcripts are delivered
MaxDelivered == 2

\* what the steps of the collaborator leave as it is
SttFrame ==
    UNCHANGED <<_message_queue, _queue_processing, _last_chatbox_sent,
                _chatbox_timeout, _chatbox_timeout_until, timers, chat_log, now,
                osc_sent, evicted, ncalls, last_call, v_text, v_result, pc, frame,
                poller_vars, anim_vars, _stt_chat_buffer, after_calls,
                after_count, ran, events, gesture_vars>>

\* the thread th is now at the place given
MovedTo(th, place) ==
    stt_threads' = (stt_threads \ {th}) \cup {[th EXCEPT !.at = place]}

\* start_listening, lines 162-182; an engine is available
start_listening ==
    /\ IF is_listening
       THEN /\ listen_result' = [called |-> TRUE, ret |-> FALSE]
            /\ UNCHANGED <<is_listening, stt_threads>>
       ELSE /\ Cardinality(stt_threads) < 2 * MaxSessions
            /\ is_listening' = TRUE
            /\ stt_threads' = stt_threads \cup
                   { [id |-> Cardinality(stt_threads) + 1, kind |-> "capture",
                      at |-> "while"],
                     [id |-> Cardinality(stt_threads) + 2, kind |-> "transcription",
                      at |-> "while"] }
            /\ listen_result' = [called |-> TRUE, ret |-> TRUE]
    /\ UNCHANGED <<audio_queue, delivered>>
    /\ SttFrame

\* stop_listening, lines 184-188: the flag is cleared; the threads are not
\* joined, the call sleeps 0.1 s and returns
stop_listening ==
    /\ is_listening' = FALSE
    /\ UNCHANGED <<stt_threads, audio_queue, delivered, listen_result>>
    /\ SttFrame

\* `while self.is_listening` of either loop, lines 206 and 259
LoopTest ==
    \E th \in stt_threads :
        /\ th.at = "while"
        /\ MovedTo(th, IF ~is_listening THEN "ended"
                       ELSE IF th.kind = "capture" THEN "read" ELSE "get")
        /\ UNCHANGED <<is_listening, audio_queue, delivered, listen_result>>
        /\ SttFrame

\* _audio_capture_loop, lines 207-243: stream.read returns, and the chunk
\* completes a segment, which is put in audio_queue, or does not
CaptureRead ==
    \E th \in stt_threads, should_process \in BOOLEAN :
        /\ th.kind = "capture"
        /\ th.at = "read"
        /\ MovedTo(th, "while")
        /\ audio_queue' = IF should_process /\ audio_queue < MaxAudio
                          THEN audio_queue + 1 ELSE audio_queue
        /\ UNCHANGED <<is_listening, delivered, listen_result>>
        /\ SttFrame

\* _transcription_loop, lines 261-264: audio_queue.get(timeout=0.1) returns
\* a segment or raises queue.Empty
TranscribeGet ==
    \E th \in stt_threads :
        /\ th.kind = "transcription"
        /\ th.at = "get"
        /\ IF audio_queue > 0
           THEN MovedTo(th, "transcribe") /\ audio_queue' = audio_queue - 1
           ELSE MovedTo(th, "while") /\ UNCHANGED audio_queue
        /\ UNCHANGED <<is_listening, delivered, listen_result>>
        /\ SttFrame

\* _transcription_loop, lines 266-272: transcribe returns, and the text is
\* handed to transcription_callback when it has more than one character
Transcribed ==
    \E th \in stt_threads, has_text \in BOOLEAN :
        /\ th.kind = "transcription"
        /\ th.at = "transcribe"
        /\ MovedTo(th, "while")
        /\ IF has_text
           THEN /\ Len(delivered) < MaxDelivered
                /\ delivered' = Append(delivered, th.id)
           ELSE UNCHANGED delivered
        /\ UNCHANGED <<is_listening, audio_queue, listen_result>>
        /\ SttFrame

NextL ==
    \/ start_listening
    \/ stop_listening
    \/ LoopTest
    \/ CaptureRead
    \/ TranscribeGet
    \/ Transcribed

ListenSpec == Init /\ [][NextL]_vars

----------------------------------------------------------------------------
(* validate_message on its own: the text is drawn from ValidateInputs and  *)
(* validate_message is applied to it.                                      *)

\* what stands before and after the body of a text
Edges ==
    { <<>>, <<SP>>, <<NUL>>, <<CR>>, <<"b">>, <<SP, "b">>, <<"b", SP>>,
      <<NUL, SP>>, <<".", ".", ".">> }

\* the body of a text repeats one of these
Cycles == { <<"a">>, <<"a", SP>>, <<"a", SP, LF>>, <<NUL>>, <<"a", NUL>>, <<SP>> }

BodyLengths ==
    (0..MaxShort) \cup
    ((_max_message_length - MaxOver)..(_max_message_length + MaxOver))

ValidateInputs ==
    { prefix \o Repeat(cycle, n) \o suffix :
        prefix \in Edges, cycle \in Cycles, n \in BodyLengths, suffix \in Edges }

InitV ==
    /\ Constructed
    /\ v_text \in ValidateInputs
    /\ windows = DefaultWindows

Validate ==
    /\ ~v_result.done
    /\ LET r == validate_message(v_text)
       IN v_result' = [done |-> TRUE, ok |-> r.ok, text |-> r.text]
    /\ UNCHANGED <<_message_queue, _queue_processing, _last_chatbox_sent,
                   _chatbox_timeout, _chatbox_timeout_until, timers, chat_log,
                   now, osc_sent, evicted, ncalls, last_call, v_text, pc, frame,
                   ui_vars>>

NextV == Validate

SpecV == InitV /\ [][NextV]_vars

----------------------------------------------------------------------------
(* Properties *)

QueueIds == [i \in 1..Len(_message_queue) |-> _message_queue[i].id]
SentIds == [i \in 1..Len(osc_sent) |-> osc_sent[i].id]
InQueue(id) == \E i \in 1..Len(_message_queue) : _message_queue[i].id = id
WasSent(id) == \E i \in 1..Len(osc_sent) : osc_sent[i].id = id
CallStep == ncalls' = ncalls + 1
SendStep == Len(osc_sent') > Len(osc_sent)

\* a diagnostic that contains "spam" in any letter case
MentionsSpam(diag) ==
    \E i \in 1..(Len(diag) - 3) :
        /\ diag[i] \in {"s", "S"}
        /\ diag[i + 1] \in {"p", "P"}
        /\ diag[i + 2] \in {"a", "A"}
        /\ diag[i + 3] \in {"m", "M"}

SpamFailure(e) == e.outcome.raised /\ MentionsSpam(e.outcome.diag)

\* C1: with the timers firing, every message that is in the queue is
\* eventually handed to the sender, unless it is evicted.
C1_EveryQueuedMessageIsSent ==
    \A id \in 1..MaxAccepted : InQueue(id) ~> (WasSent(id) \/ id \in evicted)

\* C2: once a drain has popped the last message, so that the queue is
\* empty, the processing flag is clear.
C2_FlagClearWhenQueueEmpty ==
    _message_queue = <<>> => ~_queue_processing

\* C3: the queue never holds more than _max_queue_size messages.
C3_QueueBounded ==
    Len(_message_queue) <= _max_queue_size

C3_Witness ==
    /\ Len(_message_queue) = _max_queue_size
    /\ evicted # {}
    /\ osc_sent # <<>>

C7_DropOldest ==
    /\ [][(CallStep /\ last_call'.ret /\ Len(_message_queue) >= _max_queue_size)
            => /\ Len(_message_queue') = Len(_message_queue)
               /\ \A i \in 1..(Len(_message_queue) - 1) :
                      _message_queue'[i] = _message_queue[i + 1]
               /\ _message_queue'[Len(_message_queue')].id = Accepted'
               /\ evicted' = evicted \cup {_message_queue[1].id}]_vars
    /\ [](Accepted - Len(osc_sent) > _max_queue_size =>
            QueueIds = [i \in 1.._max_queue_size |-> Accepted - _max_queue_size + i])

C7_Witness ==
    /\ Accepted = 12
    /\ QueueIds = <<3, 4, 5, 6, 7, 8, 9, 10, 11, 12>>
    /\ evicted = {2}

\* C8: a call with a text that is not blank returns true, and after it the
\* new message is the last of the queue or was handed to the sender.
C8_ValidNeverRefused ==
    (ncalls > 0 /\ ~last_call.blank) =>
        /\ last_call.ret
        /\ \/ (_message_queue # <<>> /\ _message_queue[Len(_message_queue)].id = Accepted)
           \/ WasSent(Accepted)

C8_Witness ==
    /\ ~last_call.blank
    /\ last_call.ret
    /\ Len(_message_queue) = _max_queue_size
    /\ evicted # {}

\* C9: a call with a blank text returns false and changes nothing.
C9_BlankRejected ==
    [][(CallStep /\ last_call'.blank)
         => /\ ~last_call'.ret
            /\ UNCHANGED <<_message_queue, _queue_processing, _last_chatbox_sent,
                           _chatbox_timeout, _chatbox_timeout_until, timers,
                           chat_log, osc_sent, evicted>>]_vars

C9_Witness ==
    /\ ncalls > 0
    /\ last_call.blank
    /\ ~last_call.ret
    /\ _message_queue # <<>>
    /\ timers # EmptyBag

\* C10: validate_message never returns a text of more than
\* _max_message_length characters, and when the collapsed text was too long
\* and was cut, the returned text ends with the ellipsis "...".
C10_ValidateLength ==
    v_result.done =>
        /\ Len(v_result.text) <= _max_message_length
        /\ (v_result.ok /\ Len(JoinSplit(v_text)) > _max_message_length) =>
              /\ Len(v_result.text) >= 3
              /\ SubSeq(v_result.text, Len(v_result.text) - 2, Len(v_result.text)) = Ellipsis

C10_Witness ==
    /\ v_result.done
    /\ v_result.ok
    /\ Len(JoinSplit(v_text)) > _max_message_length
    /\ Len(v_result.text) = _max_message_length
    /\ v_result.text[_max_message_length - 3] # "."

\* C11: every text validate_message accepts comes back with its whitespace
\* collapsed: no newline, no tab, and no two spaces in a row.
C11_WhitespaceCollapsed ==
    (v_result.done /\ v_result.ok) =>
        /\ \A i \in 1..Len(v_result.text) : v_result.text[i] \notin {LF, TAB}
        /\ \A i \in 1..(Len(v_result.text) - 1) :
              ~(v_result.text[i] = SP /\ v_result.text[i + 1] = SP)

\* a text as validate_message is to leave it
Sanitized(text) ==
    /\ Len(text) <= _max_message_length
    /\ \A i \in 1..Len(text) : text[i] \notin {NUL, CR}

\* C12: every text in the queue and every text handed to the sender has at
\* most _max_message_length characters and holds no null and no carriage
\* return, whichever producer passed it in.
C12_QueuedAndSentSanitized ==
    /\ \A i \in 1..Len(_message_queue) : Sanitized(_message_queue[i].text)
    /\ \A i \in 1..Len(osc_sent) : Sanitized(osc_sent[i].text)

C12_Witness ==
    /\ Len(osc_sent) = 1
    /\ osc_sent[1].text = <<"h", "i">>
    /\ Len(_message_queue) = 2
    /\ _message_queue[1].type = "stt"
    /\ Len(_message_queue[1].text) = _max_message_length
    /\ _message_queue[2].type = "music"

\* a step in which the event loop ran a timer callback, that is, called
\* _process_message_queue: the pending timers change and no producer called
TimerStep == ncalls' = ncalls /\ timers' # timers

\* C13: _process_message_queue called while the processing flag is set or
\* the queue is empty changes nothing: queue, flag, limiter state, log and
\* clock stay as they are, nothing is handed to the sender and no timer is
\* scheduled (the timer that made the call is gone, no other is added).
C13_DrainNoOp ==
    [][(TimerStep /\ (_queue_processing \/ _message_queue = <<>>))
         => /\ UNCHANGED <<_message_queue, _queue_processing, _last_chatbox_sent,
                           _chatbox_timeout, _chatbox_timeout_until, chat_log,
                           now, osc_sent, evicted>>
            /\ \E due \in BagToSet(timers) : timers' = timers (-) SetToBag({due})]_vars

C13_Witness ==
    /\ timers = EmptyBag
    /\ Len(osc_sent) = 1
    /\ Len(_message_queue) >= 2
    /\ _queue_processing
    /\ now - _last_chatbox_sent >= _min_interval

\* thread t takes a step
StepOf(t) == pc'[t] # pc[t]

\* thread t found at lines 165-166 that it must wait
MustWait(t) ==
    \/ _chatbox_timeout /\ frame[t].now < _chatbox_timeout_until
    \/ frame[t].now - _last_chatbox_sent < _min_interval

\* C14: a drain that must wait (the timeout is running or _min_interval
\* has not passed) goes on to schedule one timer, clears the flag and
\* returns; none of its steps takes a message off the queue or hands one
\* to the sender.
C14_WaitKeepsQueue ==
    [][\A t \in Threads :
         /\ (StepOf(t) /\ pc[t] = "l165" /\ MustWait(t)) => pc'[t] = "l168"
         /\ (StepOf(t) /\ pc[t] = "l168") =>
               /\ pc'[t] = "l173"
               /\ \E due \in BagToSet(timers') :
                     due > now /\ timers' = timers (+) SetToBag({due})
         /\ (StepOf(t) /\ pc[t] = "l173") => pc'[t] = "idle"
         /\ (StepOf(t) /\ (pc[t] \in {"l168", "l173"} \/ (pc[t] = "l165" /\ MustWait(t))))
               => UNCHANGED <<_message_queue, osc_sent, evicted, chat_log,
                              _last_chatbox_sent>>]_vars

C14_Witness ==
    \E t \in Threads :
        /\ pc[t] = "l173"
        /\ _message_queue # <<>>
        /\ timers # EmptyBag
        /\ now - _last_chatbox_sent < _min_interval

\* C15: at most one call of _process_message_queue is pending as a timer.
C15_OneTimerPending ==
    BagCardinality(timers) <= 1

\* the threads are between calls
AllIdle == \A t \in Threads : pc[t] = "idle"

\* C16: when a send fails, the timeout starts if and only if the diagnostic
\* holds "spam" in any letter case, and then it ends 30 s after the
\* failure; a failure with another diagnostic leaves _chatbox_timeout and
\* _chatbox_timeout_until as they were.
C16_SpamStartsTimeout ==
    [][\A t \in Threads :
         (StepOf(t) /\ pc[t] = "l196" /\ osc_sent'[frame[t].k].outcome.raised)
            => IF MentionsSpam(osc_sent'[frame[t].k].outcome.diag)
               THEN /\ _chatbox_timeout'
                    /\ _chatbox_timeout_until' = now + SpamPause
                    /\ osc_sent'[frame[t].k].done = now
               ELSE UNCHANGED <<_chatbox_timeout, _chatbox_timeout_until>>]_vars

C16_Witness ==
    /\ AllIdle
    /\ Len(osc_sent) = 2
    /\ SpamFailure(osc_sent[1])
    /\ osc_sent[2].outcome.raised
    /\ ~MentionsSpam(osc_sent[2].outcome.diag)
    /\ osc_sent[2].done > osc_sent[1].done
    /\ _chatbox_timeout
    /\ _chatbox_timeout_until = osc_sent[1].done + SpamPause

C18_SentAtMostOnce ==
    /\ \A i, j \in 1..Len(osc_sent) : i # j => osc_sent[i].id # osc_sent[j].id
    /\ \A i \in 1..Len(osc_sent) : ~InQueue(osc_sent[i].id)

C18_Witness ==
    /\ AllIdle
    /\ Len(osc_sent) = 2
    /\ osc_sent[1].outcome.raised
    /\ ~osc_sent[2].outcome.raised
    /\ osc_sent[2].at > osc_sent[1].done
    /\ _message_queue # <<>>

C20_NoBypass ==
    [][SendStep =>
         LET e == osc_sent'[Len(osc_sent')]
         IN /\ Len(osc_sent') = Len(osc_sent) + 1
            /\ ~_queue_processing
            /\ _queue_processing'
            /\ IF _message_queue # <<>>
               THEN /\ e.id = Head(_message_queue).id
                    /\ e.text = Head(_message_queue).text
               ELSE CallStep /\ e.id = Accepted + 1
            /\ \A i \in 1..Len(_message_queue') : _message_queue'[i].id # e.id]_vars

C20_Witness ==
    /\ Len(osc_sent) = 1
    /\ osc_sent[1].text = <<"n", "p", " ", "l", "a">>
    /\ Len(_message_queue) = 2
    /\ _message_queue[1].type = "dvd"
    /\ _message_queue[2].type = "general"
    /\ timers = EmptyBag

\* thread t is inside add_message_to_queue or _process_message_queue
Inside(t) == pc[t] # "idle"

\* thread t is inside the call of the OSC client
Sending(t) == pc[t] = "l196"

\* C21: add_message_to_queue and _process_message_queue are never run by the
\* event loop and by the transcription thread at the same time; so the two
\* threads are never both in a send, and a send that returned is followed
\* by no other send within _min_interval.
C21_OneThreadAtATime ==
    /\ ~(Inside("main") /\ Inside("stt"))
    /\ ~(Sending("main") /\ Sending("stt"))
    /\ \A i, j \in 1..Len(osc_sent) :
          (i < j /\ ~osc_sent[i].outcome.raised /\ osc_sent[i].done > osc_sent[i].at)
             => osc_sent[j].at - osc_sent[i].done >= _min_interval

\* the pending ticks of the now-playing animation and of the paused animation
MusicTicks == {c \in after_calls : c.callback = "animate_music_status"}
DvdTicks == {c \in after_calls : c.callback = "animate_dvd_status"}

\* an animation is active when its running flag is set or a tick of it is pending
MusicActive == _music_anim_running \/ MusicTicks # {}
DvdActive == _dvd_anim_running \/ DvdTicks # {}

\* C22: the now-playing animation and the paused animation are never
\* active together: in no reachable state have both their running flag set
\* or a tick pending.
C22_OneAnimationActive == ~(MusicActive /\ DvdActive)

\* C23: at most one tick of the now-playing animation is pending at any
\* time: no start of the animation (by the poller, by the resume after a
\* transcript, by the restart of a tick) leaves an earlier tick pending
\* beside the one it schedules.
C23_OneMusicTickPending == Cardinality(MusicTicks) <= 1

\* the step is a run of the handler named
Ran(handler) == ran' # ran /\ ran'.handler = handler

\* the now-playing animation is stopped: stop_music_animation has cleared
\* the running flag and the id of the tick, and start_music_animation has
\* not been called since
MusicStopped == ~_music_anim_running /\ _music_anim_after_id = NoId

\* C24: after stop_music_animation the session is ended until
\* start_music_animation is called: a tick that is run while the animation is
\* stopped enqueues no frame, schedules no tick and leaves it stopped.
C24_StoppedUntilStart ==
    [][(MusicStopped /\ Ran("animate_music_status"))
          => /\ MusicStopped'
             /\ MusicTicks' \subseteq MusicTicks
             /\ ncalls' = ncalls]_vars

\* C25: a tick of the now-playing animation that finds the running flag
\* cleared enqueues no frame; when the session is started it sets the flag
\* again and schedules one further tick, and when the session is not
\* started it schedules nothing and leaves the flag cleared.
C25_SelfHeal ==
    [][(Ran("animate_music_status") /\ ~_music_anim_running)
          => /\ ncalls' = ncalls
             /\ IF started
                THEN /\ _music_anim_running'
                     /\ Cardinality(MusicTicks' \ MusicTicks) = 1
                ELSE /\ ~_music_anim_running'
                     /\ MusicTicks' \subseteq MusicTicks]_vars

\* the step is a run of send_and_repeat_song_info past its guard (lines
\* 883-886), as a callback or called by select_window
PollRan ==
    \/ /\ Ran("send_and_repeat_song_info")
       /\ started /\ vrchat_enabled_var /\ selected_window # NoWindow
    \/ /\ Ran("select_window")
       /\ started /\ vrchat_enabled_var

\* the song the poll has resolved: that of the window as the poll leaves it
Observed == SongOf(selected_window')

\* the last-sent pair the poll compares with (select_window resets it first)
LastPair ==
    IF Ran("select_window") THEN [title |-> None, artist |-> None]
    ELSE [title |-> last_sent_song_info, artist |-> last_sent_artist]

\* the text of the message the step has accepted as its k-th
AcceptedText(k) ==
    LET id == Accepted + k
    IN IF \E i \in 1..Len(_message_queue') : _message_queue'[i].id = id
       THEN _message_queue'[CHOOSE i \in 1..Len(_message_queue') :
                               _message_queue'[i].id = id].text
       ELSE osc_sent'[CHOOSE i \in 1..Len(osc_sent') : osc_sent'[i].id = id].text

\* the banner and the first frame of a pair, as validate_message leaves them
BannerOf(song) == validate_message(next_song_msg(song.title, song.artist)).text
FirstFrameOf(song) == validate_message(anim_text(0, song.title, song.artist)).text

\* C26: a poll that resolves a title that is not empty and not paused
\* enqueues the next-song banner exactly when the pair differs from the
\* last-sent pair: then the banner is enqueued once, before the first frame
\* of the pair, and otherwise only the frame is enqueued; after the poll the
\* last-sent pair is the observed pair.
C26_BannerIffChanged ==
    [][(PollRan /\ Observed.title # <<>> /\ ~Observed.is_paused)
          => /\ IF Observed.title # LastPair.title \/ Observed.artist # LastPair.artist
                THEN /\ Accepted' = Accepted + 2
                     /\ AcceptedText(1) = BannerOf(Observed)
                     /\ AcceptedText(2) = FirstFrameOf(Observed)
                ELSE /\ Accepted' = Accepted + 1
                     /\ AcceptedText(1) = FirstFrameOf(Observed)
             /\ last_sent_song_info' = Observed.title
             /\ last_sent_artist' = Observed.artist]_vars

\* a poll has found the second song after the first and has enqueued its
\* banner right before its first frame
C26_Witness ==
    /\ ran.handler = "send_and_repeat_song_info"
    /\ last_sent_song_info = <<"2">>
    /\ last_sent_artist = <<"B">>
    /\ \E i \in 1..(Len(_message_queue) - 1) :
          /\ _message_queue[i].text = BannerOf([title |-> <<"2">>, artist |-> <<"B">>])
          /\ _message_queue[i].type = "general"
          /\ _message_queue[i + 1].text = FirstFrameOf([title |-> <<"2">>, artist |-> <<"B">>])
          /\ _message_queue[i + 1].type = "music"
          /\ _message_queue[i + 1].id = _message_queue[i].id + 1

\* C27: a poll that finds the pair it handled last leaves the running
\* now-playing animation as it is: the frame index and the pending tick are
\* kept and the poll enqueues no frame.
C27_UnchangedPairKeepsSession ==
    [][(/\ PollRan
        /\ _music_anim_running
        /\ Observed.title # <<>> /\ ~Observed.is_paused
        /\ Observed.title = LastPair.title /\ Observed.artist = LastPair.artist)
          => /\ _music_anim_index' = _music_anim_index
             /\ MusicTicks' = MusicTicks
             /\ ncalls' = ncalls]_vars

\* the window of the Spotify player as the poll leaves it has this title
PlayerShows(title) ==
    /\ Contains(Lower(selected_window'.process_name), Lower(Spotify))
    /\ Strip(selected_window'.title) = title

\* what a poll does that takes the player for paused
PausedHandled ==
    /\ _dvd_anim_running'
    /\ ~_music_anim_running'
    /\ Accepted' = Accepted + 1
    /\ \E pos \in DvdPositions : AcceptedText(1) = validate_message(dvd_msg(pos)).text
    /\ last_sent_song_info' = LastPair.title
    /\ last_sent_artist' = LastPair.artist

\* C28: a poll that finds the title of the player's window among the
\* paused titles starts the paused animation and not the now-playing one:
\* after it the paused animation is running, the now-playing animation is
\* not, the only message enqueued is a paused frame (no banner), and the
\* last-sent pair is as it was.
C28_PausedTitleStartsPausedAnimation ==
    [][(PollRan /\ \E title \in paused_titles : PlayerShows(title))
          => PausedHandled]_vars

\* the pending runs of the poller
Polls == {c \in after_calls : c.callback = "send_and_repeat_song_info"}

Loggable == {k \in 1..Len(osc_sent) :
                ~osc_sent[k].outcome.raised \/ SpamFailure(osc_sent[k])}

\* C30: the chat log holds lines only for messages that were sent or were
\* rejected as rate-limited, one line each: a text stands in the log at most
\* as often as it was sent or rejected, so a message that is only queued,
\* was evicted or was never sent has no line and a sent one has one.
C30_LogOnlySentOnce ==
    \A i \in 1..Len(chat_log) :
        Cardinality({j \in 1..Len(chat_log) : chat_log[j].text = chat_log[i].text})
            <= Cardinality({k \in Loggable : osc_sent[k].text = chat_log[i].text})

\* the text is a frame of the now-playing animation
IsNowPlaying(text) ==
    Contains(text, <<"N", "o", "w", SP, "P", "l", "a", "y", "i", "n", "g", ":">>)

\* the step has enqueued a frame of the now-playing animation
FrameEnqueued ==
    \E k \in 1..(Accepted' - Accepted) : IsNowPlaying(AcceptedText(k))

\* a transcript was handled less than 10 s ago: the resume that on_stt_text
\* has scheduled is pending and not yet due
Resumes == {c \in after_calls : c.callback = "start_music_animation"}

SttPause == \E c \in Resumes : c.due > now

\* C31: for 10 s after on_stt_text has run no frame of the now-playing
\* animation is enqueued, whatever handler runs (the transcript handler
\* itself, a tick, a poll), and the resume that is run after the 10 s starts
\* the animation again.
C31_SttPausesAnimation ==
    [][/\ SttPause => ~FrameEnqueued
       /\ Ran("start_music_animation") => _music_anim_running' /\ FrameEnqueued]_vars

\* the step is a run of on_stt_text with this transcript
Heard(text) ==
    /\ Ran("on_stt_text")
    /\ _stt_chat_buffer' = Buffered(_stt_chat_buffer, text)

\* C32: the message that on_stt_text enqueues for a transcript contains the
\* transcript as validate_message leaves it, however many transcripts came
\* before it (every transcript of the model fits in one message).
C32_TranscriptInMessage ==
    [][\A text \in SttTranscripts :
          (Heard(text) /\ Accepted' = Accepted + 1 /\ validate_message(text).ok)
              => Contains(AcceptedText(1), validate_message(text).text)]_vars

\* C33: a text that validate_message accepts comes back non-empty, so that
\* no empty message is queued or sent, also for texts made of null
\* characters.
C33_AcceptedNotEmpty ==
    (v_result.done /\ v_result.ok) => v_result.text # <<>>

\* C34: validate_message changes nothing in a text it has accepted and
\* sanitized: applied to its own result it accepts it and returns it as it is.
C34_ValidateIdempotent ==
    (v_result.done /\ v_result.ok) =>
        validate_message(v_result.text) = [ok |-> TRUE, text |-> v_result.text]

\* C35: with add_message_to_queue run by the transcription thread and the
\* event loop at the same time the queue never holds more than
\* _max_queue_size messages, and no pop(0), of the enqueue or of the drain,
\* is reached with the queue empty.
C35_BoundSurvivesThreads ==
    /\ Len(_message_queue) <= _max_queue_size
    /\ \A t \in Threads : pc[t] \in {"l137", "l178"} => _message_queue # <<>>

\* C36: at most one run of the poller is pending at any time: a window
\* selected while a run is pending, the same window or another, adds no
\* second chain of runs.
C36_OnePollPending == Cardinality(Polls) <= 1

\* the text is a frame of the paused animation
IsPaused(text) == Contains(text, <<"P", "a", "u", "s", "e", "d">>)

\* the step has enqueued a frame of the paused animation
PausedFrameEnqueued ==
    \E k \in 1..(Accepted' - Accepted) : IsPaused(AcceptedText(k))

\* the poller is idle: a run of it has found the session stopped or the
\* integration disabled (or no window was selected yet) and no window was
\* selected since; select_window alone sets _keep_sending_song
PollerIdle == ~_keep_sending_song

DvdFrameAccepted(k) ==
    /\ \E pos \in DvdPositions : AcceptedText(k) = validate_message(dvd_msg(pos)).text
    /\ \A i \in 1..Len(_message_queue') :
          _message_queue'[i].id = Accepted + k => _message_queue'[i].type = "dvd"

\* the step is one in which start_dvd_animation can be called: a run of the
\* poller, as a callback or by select_window
MayStartDvd == Ran("send_and_repeat_song_info") \/ Ran("select_window")

\* C38: a tick of the paused animation that finds it running enqueues one
\* frame, of category dvd, and schedules one next tick, 1, 2 or 3 s later; at
\* most one tick of the paused animation is pending at any time; and while
\* the animation is stopped no tick is pending and no frame is enqueued
\* until start_dvd_animation is called.
C38_DvdLifecycle ==
    [][/\ (Ran("animate_dvd_status") /\ _dvd_anim_running)
            => /\ Accepted' = Accepted + 1
               /\ DvdFrameAccepted(1)
               /\ Cardinality(DvdTicks' \ DvdTicks) = 1
               /\ \A c \in DvdTicks' \ DvdTicks : c.due - now' \in DVD_SPEEDS
       /\ Cardinality(DvdTicks') <= 1
       /\ ~_dvd_anim_running' => DvdTicks' = {}
       /\ (~_dvd_anim_running /\ ~MayStartDvd) => ~PausedFrameEnqueued]_vars

\* a tick of the running paused animation has enqueued a frame, which waits
\* in the queue, and the next tick is pending
C38_Witness ==
    /\ ran.handler = "animate_dvd_status"
    /\ _dvd_anim_running
    /\ Cardinality(DvdTicks) = 1
    /\ _message_queue # <<>>
    /\ _message_queue[Len(_message_queue)].type = "dvd"
    /\ _message_queue[Len(_message_queue)].id = Accepted

\* C39: every gesture with a phrase that the poll loop detects is handed
\* to the callback the recognizer was constructed with, in order, and the
\* thread of the poll loop does not end by it.
C39_GestureReachesCallback ==
    /\ gesture_calls = gesture_detected
    /\ thread # "died"

\* the threads of this kind that have not returned
Live(kind) == {th \in stt_threads : th.kind = kind /\ th.at # "ended"}

\* C40: start_listening called while listening returns False and starts no
\* thread; and while a session is listening there is one capture loop and
\* one transcription loop at most, those of the session: the threads of an
\* earlier session have returned.
C40_OneSession ==
    [][/\ (is_listening /\ listen_result' # listen_result)
            => ~listen_result'.ret /\ stt_threads' = stt_threads
       /\ is_listening'
            => /\ Cardinality(Live("capture")') <= 1
               /\ Cardinality(Live("transcription")') <= 1]_vars

====
